---- MODULE Spec2Model ----
(***************************************************************************)
(* Ant Colony Optimization for the TSP: the two engines of the repository, *)
(* ACOSolver (utils/aco, geographic /map page) and AntColony               *)
(* (lib/AntColony.ts, home page), as one state machine.                    *)
(*                                                                         *)
(* Numbers.  The engines compute with IEEE doubles.  The model computes    *)
(* with exact fractions <<num, den>> (den > 0, lowest terms) extended by   *)
(* the three non-finite doubles: Infinity = <<1,0>>, -Infinity = <<-1,0>>  *)
(* and NaN = <<0,0>>.  Exponents alpha, beta are whole numbers so that     *)
(* Math.pow stays exact.                                                   *)
(***************************************************************************)
EXTENDS Integers, Sequences, FiniteSets, TLC

\* ------------------------------------------------------------------------
\* Bounds of the model
\* ------------------------------------------------------------------------
\* iterations run on one engine between two resets
MaxIter == 2

\* ------------------------------------------------------------------------
\* Arithmetic of doubles, exact
\* ------------------------------------------------------------------------
RECURSIVE GCD(_, _)
GCD(a, b) == IF b = 0 THEN a ELSE GCD(b, a % b)

Abs(n) == IF n < 0 THEN -n ELSE n
Sign(n) == IF n < 0 THEN -1 ELSE IF n > 0 THEN 1 ELSE 0

Infinity == <<1, 0>>
NaN == <<0, 0>>
Zero == <<0, 1>>
One == <<1, 1>>

\* the fraction n/d in canonical form (d may be 0 or negative)
Norm(n, d) ==
    IF d = 0 THEN <<Sign(n), 0>>
    ELSE LET g == GCD(Abs(n), Abs(d))
         IN  <<Sign(d) * (n \div g), Abs(d) \div g>>

Num(n) == <<n, 1>>
IsNaN(a) == a = NaN
IsFinite(a) == a[2] # 0

\* products cancel common factors first, to keep the integers small
RMul(a, b) ==
    IF a[2] = 0 \/ b[2] = 0 \/ a[1] = 0 \/ b[1] = 0 THEN Norm(a[1] * b[1], a[2] * b[2])
    ELSE LET g1 == GCD(Abs(a[1]), b[2])
             g2 == GCD(Abs(b[1]), a[2])
         IN  <<(a[1] \div g1) * (b[1] \div g2), (a[2] \div g2) * (b[2] \div g1)>>
RDiv(a, b) ==
    IF b[1] = 0 \/ b[2] = 0 THEN Norm(a[1] * b[2], a[2] * Abs(b[1]))
    ELSE RMul(a, <<Sign(b[1]) * b[2], Abs(b[1])>>)
RAdd(a, b) ==
    IF IsNaN(a) \/ IsNaN(b) THEN NaN
    ELSE IF ~IsFinite(a) /\ ~IsFinite(b) THEN (IF a = b THEN a ELSE NaN)
    ELSE IF ~IsFinite(a) THEN a
    ELSE IF ~IsFinite(b) THEN b
    ELSE LET g == GCD(a[2], b[2])
         IN  Norm(a[1] * (b[2] \div g) + b[1] * (a[2] \div g), (a[2] \div g) * b[2])
RSub(a, b) == RAdd(a, <<-b[1], b[2]>>)

\* a < b, a <= b, a > b as JavaScript compares doubles (false on NaN)
RLt(a, b) ==
    /\ ~IsNaN(a) /\ ~IsNaN(b)
    /\ IF ~IsFinite(a) /\ ~IsFinite(b) THEN a[1] < b[1]
       ELSE IF ~IsFinite(a) THEN a[1] < 0
       ELSE IF ~IsFinite(b) THEN b[1] > 0
       ELSE LET g == GCD(a[2], b[2])
            IN  a[1] * (b[2] \div g) < b[1] * (a[2] \div g)
RLe(a, b) == ~IsNaN(a) /\ ~IsNaN(b) /\ (a = b \/ RLt(a, b))
RGt(a, b) == RLt(b, a)

\* Math.max(a, b)
RMax(a, b) == IF IsNaN(a) \/ IsNaN(b) THEN NaN ELSE IF RLt(a, b) THEN b ELSE a

\* Math.pow(x, k) for a natural exponent k (Math.pow(x, 0) is 1 for every x)
RECURSIVE RPow(_, _)
RPow(x, k) == IF k = 0 THEN One ELSE RMul(x, RPow(x, k - 1))

\* Math.pow(x, e) for an exponent e that is a whole number
Pow(x, e) == RPow(x, CHOOSE k \in {e[1]} : e[2] = 1)

RMin(a, b) == IF IsNaN(a) \/ IsNaN(b) THEN NaN ELSE IF RLt(b, a) THEN b ELSE a

\* Math.floor(x) of a finite non-negative x, as an integer
Floor(x) == x[1] \div x[2]

\* Math.sqrt of a natural that is a perfect square
Sqrt(k) == CHOOSE r \in 0..k : r * r = k

\* x || dflt : dflt replaces a falsy number (0 or NaN)
OrElse(x, dflt) == IF x = Zero \/ IsNaN(x) THEN dflt ELSE x

Last(s) == s[Len(s)]

\* sample values of Math.random(), all in [0, 1), for statements about one
\* selection
RandSet == {<<0, 1>>, <<1, 4>>, <<1, 2>>, <<3, 5>>, <<9, 10>>}

\* Math.random() against the thresholds of a loop that stops at the first
\* threshold with random <= threshold: the thresholds cut [0, 1) into
\* intervals on which the loop has one outcome, and every interval has a
\* member here (its upper end, or the midpoint of the last one), so every
\* outcome a value of [0, 1) can have is the outcome of a member
DrawsAgainst(thresholds) ==
    LET below == {c \in thresholds : RLe(Zero, c) /\ RLt(c, One)}
        top == CHOOSE m \in below \cup {Zero} : \A c \in below : RLe(c, m)
    IN  below \cup {RDiv(RAdd(top, One), Num(2))}

\* the members of a set of naturals in ascending order: the iteration order
\* of a JavaScript Set/Map filled in ascending order (deletions keep it)
RECURSIVE Ascending(_)
Ascending(S) ==
    IF S = {} THEN <<>>
    ELSE LET m == CHOOSE x \in S : \A y \in S : x <= y
         IN  <<m>> \o Ascending(S \ {m})

\* ------------------------------------------------------------------------
\* State
\* ------------------------------------------------------------------------
VARIABLES
    engine,           \* class of the engine object: "ACOSolver" or "AntColony"
    \* fields of both classes
    bestPath, bestDistance, iteration,
    \* ACOSolver fields
    distanceMatrix, pheromoneMatrix, heuristicMatrix, numCities,
    \* the ACOParams the page hands to every solveIteration call
    params,
    \* locals of the last solveIteration: the tours built and their lengths
    allTours, allDistances,
    \* AntColony fields
    cities, numAnts, alpha, beta, evaporationRate, pheromones, distances,
    distanceHistory,
    \* local of the last runIteration: the AntPath records {path, distance}
    antTours,
    \* pheromone store of the last iteration before its update and right
    \* after its evaporation loop
    oldPheromone, evaporated,
    \* bestDistance values returned by the iteration calls since the last reset
    reported,
    \* the last call made on the engine and the iteration counter before it
    lastCall,
    \* the array the caller kept from its last read of the engine
    held,
    \* the page that hosts the engine: its React state, refs and timer
    page

solverVars == <<distanceMatrix, pheromoneMatrix, heuristicMatrix, numCities, params,
                allTours, allDistances>>
colonyVars == <<cities, numAnts, alpha, beta, evaporationRate, pheromones, distances,
                distanceHistory, antTours>>
engineVars == <<engine, bestPath, bestDistance, iteration, solverVars, colonyVars,
                oldPheromone, evaporated, reported, lastCall, held>>
vars == <<engineVars, page>>

\* value of a field the engine's class does not have
Null == "null"

\* a call that returns: lastCall.iteration is the counter before the call,
\* lastCall.returned the iteration field of the object the call returns (-1:
\* the call returns none), lastCall.threw says that the call threw
Call(op) == [op |-> op, iteration |-> iteration, threw |-> FALSE, returned |-> -1]

\* a call that returns an object whose iteration field is value
Returning(op, value) == [Call(op) EXCEPT !.returned = value]

\* a call that ends in an exception
Throwing(op) == [Call(op) EXCEPT !.threw = TRUE]

\* Arrays are objects: a getter that returns this.bestPath, this.cities or
\* this.distanceHistory hands out the engine's own array.  held.field names
\* the field the caller read; held.returned is the content at the time of the
\* read; held.live says that the caller's array still is the array of the
\* field; a caller's array that no longer is has the content held.value.
NothingHeld == [field |-> "none", returned |-> <<>>, value |-> <<>>, live |-> FALSE]

\* the content of the array of an engine field
FieldValue(f) ==
    CASE f = "bestPath" -> bestPath
      [] f = "distanceHistory" -> distanceHistory
      [] f = "cities" -> cities
      [] OTHER -> <<>>

\* the content of the caller's array
HeldNow == IF held.live THEN FieldValue(held.field) ELSE held.value

\* the engine assigns a new array to each of the fields: an array the caller
\* holds keeps its content and is the field's array no longer
Detach(fields) ==
    IF held.live /\ held.field \in fields
    THEN [held EXCEPT !.live = FALSE, !.value = FieldValue(held.field)]
    ELSE held

\* ------------------------------------------------------------------------
\* ACOSolver (utils/aco)
\* ------------------------------------------------------------------------
Cities == 0..(numCities - 1)

\* Array(n).fill(null).map(() => Array(n).fill(v))
FilledMatrix(n, v) == [i \in 0..(n - 1) |-> [j \in 0..(n - 1) |-> v]]

initialPheromone == One

\* pheromone floor of the evaporation loop (0.001)
MinPheromone == <<1, 1000>>

\* heuristic matrix of the constructor: 1/d where i # j and d > 0, else 0
BuildHeuristic(n, dm) ==
    [i \in 0..(n - 1) |-> [j \in 0..(n - 1) |->
        IF i # j /\ RGt(dm[i][j], Zero) THEN RDiv(One, dm[i][j]) ELSE Zero]]

\* the Map calculateProbabilities fills while it walks the unvisited Set:
\* entries <<city, tau^alpha * eta^beta>> in the Set's order
RECURSIVE Weights(_, _, _, _)
Weights(currentCity, order, a, b) ==
    IF order = <<>> THEN <<>>
    ELSE <<<<Head(order),
             RMul(Pow(pheromoneMatrix[currentCity][Head(order)], a),
                  Pow(heuristicMatrix[currentCity][Head(order)], b))>>>>
         \o Weights(currentCity, Tail(order), a, b)

\* total += probability, entry by entry
RECURSIVE Total(_, _, _)
Total(entries, k, acc) ==
    IF k > Len(entries) THEN acc ELSE Total(entries, k + 1, RAdd(acc, entries[k][2]))

RECURSIVE Normalize(_, _)
Normalize(entries, total) ==
    IF entries = <<>> THEN <<>>
    ELSE <<<<Head(entries)[1], RDiv(Head(entries)[2], total)>>>>
         \o Normalize(Tail(entries), total)

\* calculateProbabilities: weight tau^alpha * eta^beta of every unvisited
\* city, divided by the total when the total is positive; the result is the
\* Map as its sequence of entries <<city, probability>>
calculateProbabilities(currentCity, unvisited, a, b) ==
    LET probabilities == Weights(currentCity, Ascending(unvisited), a, b)
        total == Total(probabilities, 1, Zero)
    IN  IF RGt(total, Zero) THEN Normalize(probabilities, total) ELSE probabilities

\* the roulette loop with the first city as its fallback
RECURSIVE RouletteFirst(_, _, _, _)
RouletteFirst(probabilities, k, cumulative, random) ==
    IF k > Len(probabilities)
    THEN probabilities[1][1]
    ELSE LET c == RAdd(cumulative, probabilities[k][2])
         IN  IF RLe(random, c) THEN probabilities[k][1]
             ELSE RouletteFirst(probabilities, k + 1, c, random)

\* the roulette loop of selectNextCity from entry k on
RECURSIVE Roulette(_, _, _, _)
Roulette(probabilities, k, cumulative, random) ==
    IF k > Len(probabilities)
    THEN Last(probabilities)[1]                 \* fallback: the last city
    ELSE LET c == RAdd(cumulative, probabilities[k][2])
         IN  IF RLe(random, c) THEN probabilities[k][1]
             ELSE Roulette(probabilities, k + 1, c, random)

\* selectNextCity(probabilities) with Math.random() = random
selectNextCity(probabilities, random) == Roulette(probabilities, 1, Zero, random)

\* the loop of calculatePathDistance from index i on
RECURSIVE PathSum(_, _, _)
PathSum(path, i, distance) ==
    IF i > Len(path) - 1 THEN distance
    ELSE PathSum(path, i + 1, RAdd(distance, distanceMatrix[path[i]][path[i + 1]]))

\* calculatePathDistance without the edge back to the start
calculatePathDistanceOpen(path) == PathSum(path, 1, Zero)

\* calculatePathDistance: consecutive edges, then the edge back to the start
calculatePathDistance(path) ==
    RAdd(PathSum(path, 1, Zero), distanceMatrix[Last(path)][path[1]])

\* the while loop of constructAntTour; draws[k] is the k-th Math.random()
RECURSIVE BuildTour(_, _, _, _, _, _)
BuildTour(tour, unvisited, a, b, draws, k) ==
    IF unvisited = {} THEN tour
    ELSE LET probabilities == calculateProbabilities(Last(tour), unvisited, a, b)
             nextCity == selectNextCity(probabilities, draws[k])
         IN  BuildTour(Append(tour, nextCity), unvisited \ {nextCity},
                       a, b, draws, k + 1)

\* constructAntTour that leaves the start city in the unvisited set (and so
\* draws once more)
constructAntTourKeepStart(a, b, draws) ==
    LET startCity == Floor(RMul(draws[1], Num(numCities)))
    IN  BuildTour(<<startCity>>, Cities, a, b, draws \o draws, 2)

\* constructAntTour(alpha, beta): one Math.random() for the start city and
\* one for every selectNextCity call
constructAntTour(a, b, draws) ==
    LET startCity == Floor(RMul(draws[1], Num(numCities)))
    IN  BuildTour(<<startCity>>, Cities \ {startCity}, a, b, draws, 2)

\* Math.random() for the start city: Math.floor(random * numCities) is k on
\* [k / numCities, (k + 1) / numCities), one value for every k
StartDraws ==
    IF numCities = 0 THEN {Zero}
    ELSE {RDiv(Num(k), Num(numCities)) : k \in 0..(numCities - 1)}

\* the values cumulative takes in the loop of selectNextCity
RECURSIVE RunningSums(_, _, _)
RunningSums(probabilities, k, cumulative) ==
    IF k > Len(probabilities) THEN {}
    ELSE LET c == RAdd(cumulative, probabilities[k][2])
         IN  {c} \cup RunningSums(probabilities, k + 1, c)

\* the sequences of Math.random() values of the while loop of
\* constructAntTour, after those in draws: one value per selection, for every
\* city the selection can return
RECURSIVE SelectionDraws(_, _, _, _, _)
SelectionDraws(tour, unvisited, a, b, draws) ==
    IF unvisited = {} THEN {draws}
    ELSE LET probabilities == calculateProbabilities(Last(tour), unvisited, a, b)
         IN  UNION {LET nextCity == selectNextCity(probabilities, random)
                    IN  SelectionDraws(Append(tour, nextCity), unvisited \ {nextCity},
                                       a, b, Append(draws, random))
                    : random \in DrawsAgainst(RunningSums(probabilities, 1, Zero))}

\* the sequences of Math.random() values of one constructAntTour: one value
\* for every start city, then one per selection
TourDraws(a, b) ==
    UNION {LET startCity == Floor(RMul(random, Num(numCities)))
           IN  SelectionDraws(<<startCity>>, Cities \ {startCity}, a, b, <<random>>)
           : random \in StartDraws}

\* every tour constructAntTour can return from the current pheromone store
AntTours(a, b) == {constructAntTour(a, b, draws) : draws \in TourDraws(a, b)}

RECURSIVE PathDistances(_)
PathDistances(tours) ==
    IF tours = <<>> THEN <<>>
    ELSE <<calculatePathDistance(Head(tours))>> \o PathDistances(Tail(tours))

\* the evaporation loop of updatePheromones
Evaporate(pm, rho) ==
    [i \in DOMAIN pm |-> [j \in DOMAIN pm[i] |->
        RMax(RMul(pm[i][j], RSub(One, rho)), MinPheromone)]]

\* DepositEdge without the line marked "Symmetric"
DepositEdgeOneWay(pm, from, to, deposit) ==
    [pm EXCEPT ![from][to] = RAdd(@, deposit)]

\* pheromoneMatrix[from][to] += deposit; pheromoneMatrix[to][from] += deposit
DepositEdge(pm, from, to, deposit) ==
    LET p1 == [pm EXCEPT ![from][to] = RAdd(@, deposit)]
    IN  [p1 EXCEPT ![to][from] = RAdd(@, deposit)]

RECURSIVE DepositEdges(_, _, _, _)
DepositEdges(pm, tour, i, deposit) ==
    IF i > Len(tour) - 1 THEN pm
    ELSE DepositEdges(DepositEdge(pm, tour[i], tour[i + 1], deposit), tour, i + 1, deposit)

\* one pass of the deposit loop without the test distance > 0
DepositTourUnguarded(pm, tour, distance, q) ==
    LET deposit == RDiv(q, distance)
    IN  DepositEdge(DepositEdges(pm, tour, 1, deposit), Last(tour), tour[1], deposit)

\* one pass of the deposit loop: tour k adds q / distance on each of its edges
DepositTour(pm, tour, distance, q) ==
    IF RGt(distance, Zero)
    THEN LET deposit == RDiv(q, distance)
         IN  DepositEdge(DepositEdges(pm, tour, 1, deposit), Last(tour), tour[1], deposit)
    ELSE pm

RECURSIVE DepositAll(_, _, _, _, _)
DepositAll(pm, tours, dists, k, q) ==
    IF k > Len(tours) THEN pm
    ELSE DepositAll(DepositTour(pm, tours[k], dists[k], q), tours, dists, k + 1, q)

\* updatePheromones with its two loops in the other order
updatePheromonesDepositFirst(pm, tours, dists, rho, q) ==
    Evaporate(DepositAll(pm, tours, dists, 1, q), rho)

\* updatePheromones(allTours, allDistances, rho, q) applied to the store pm
updatePheromones(pm, tours, dists, rho, q) ==
    DepositAll(Evaporate(pm, rho), tours, dists, 1, q)

\* UpdateBest without its comparison: the latest tour always wins
RECURSIVE UpdateBestLatest(_, _, _, _, _)
UpdateBestLatest(bd, bp, tours, dists, k) ==
    IF k > Len(tours) THEN <<bd, bp>>
    ELSE UpdateBestLatest(dists[k], tours[k], tours, dists, k + 1)

\* the "update best solution" scan of the ant loop: <<bestDistance, bestPath>>
\* after ants k.. have reported
RECURSIVE UpdateBest(_, _, _, _, _)
UpdateBest(bd, bp, tours, dists, k) ==
    IF k > Len(tours) THEN <<bd, bp>>
    ELSE IF RLt(dists[k], bd)
         THEN UpdateBest(dists[k], tours[k], tours, dists, k + 1)
         ELSE UpdateBest(bd, bp, tours, dists, k + 1)

\* a number[][] of the rows given, row by row
Rows(rows) == [i \in 0..(Len(rows) - 1) |->
                  [j \in 0..(Len(rows[i + 1]) - 1) |-> Num(rows[i + 1][j + 1])]]

\* every row calculatePathDistance reads of a tour exists: the rows of all
\* cities, row 0 for the tour [0] of a solver without cities
RowsPresent ==
    \A i \in 0..(numCities - 1) \cup {0} : i \in DOMAIN distanceMatrix

\* the n x n matrix of the rows given
Matrix(rows) == [i \in 0..(Len(rows) - 1) |->
                    [j \in 0..(Len(rows) - 1) |-> Num(rows[i + 1][j + 1])]]
\* the page's parameters: the defaults of the /map page with fewer ants, the
\* defaults with the evaporation slider at its maximum, and two settings with
\* strong evaporation, one of them with alpha = 0
DefaultParams(ants) ==
    [alpha |-> Num(1), beta |-> Num(2), rho |-> <<1, 10>>, numAnts |-> ants, q |-> Num(100)]
HarshParams(ants) ==
    [alpha |-> Num(1), beta |-> Num(2), rho |-> <<99, 100>>, numAnts |-> ants, q |-> Num(100)]
GreedyParams(ants) ==
    [alpha |-> Num(0), beta |-> Num(1), rho |-> <<1, 2>>, numAnts |-> ants, q |-> Num(1)]
EvenParams(ants) ==
    [alpha |-> Num(1), beta |-> Num(1), rho |-> <<1, 2>>, numAnts |-> ants, q |-> Num(1)]

\* the solvers of the model: a distance matrix (buildHaversineMatrix or the
\* routing service) and the parameters used with it
Scenario(dm, p) == [distanceMatrix |-> dm, params |-> p]
SolverScenarios ==
    { \* two points
      Scenario(Matrix(<< <<0, 3>>, <<3, 0>> >>), HarshParams(2)),
      \* a 3-4-5 triangle
      Scenario(Matrix(<< <<0, 3, 4>>, <<3, 0, 5>>, <<4, 5, 0>> >>), DefaultParams(1)),
      \* a triangle with two points at distance 0
      Scenario(Matrix(<< <<0, 0, 4>>, <<0, 0, 4>>, <<4, 4, 0>> >>), GreedyParams(1)),
      \* one-way streets: an asymmetric matrix
      Scenario(Matrix(<< <<0, 1, 5>>, <<2, 0, 1>>, <<1, 4, 0>> >>), GreedyParams(2)),
      \* four points on a line, one unit apart
      Scenario(Matrix(<< <<0, 1, 2, 3>>, <<1, 0, 1, 2>>, <<2, 1, 0, 1>>, <<3, 2, 1, 0>> >>),
               EvenParams(1)) }

\* ------------------------------------------------------------------------
\* AntColony (lib/AntColony.ts)
\* ------------------------------------------------------------------------
\* a Map is a function on its keys; new Map() and Map.clear() give EmptyMap
EmptyMap == <<>>
MapSet(m, key, v) == (key :> v) @@ m
\* m.get(key) || dflt
GetOr(m, key, dflt) == IF key \in DOMAIN m THEN OrElse(m[key], dflt) ELSE dflt

\* a City is <<x, y>>; city i of the code is cs[i + 1]
euclideanDistance(city1, city2) ==
    LET dx == city1[1] - city2[1]
        dy == city1[2] - city2[2]
    IN  Num(Sqrt(dx * dx + dy * dy))

edgeKey(i, j) == <<IF i < j THEN i ELSE j, IF i < j THEN j ELSE i>>

\* the pairs (i, j), i # j, in the order of the nested loops over 0..n-1:
\* the k-th pair has i = (k - 1) div (n - 1) and the j after skipping j = i
Pairs(n) ==
    [k \in 1..(n * (n - 1)) |->
        LET i == (k - 1) \div (n - 1)
            r == (k - 1) % (n - 1)
        IN  <<i, IF r < i THEN r ELSE r + 1>>]

IsUpper(pair) == pair[1] < pair[2]

\* the pairs (i, j), i < j, of the loop that averages the distances, in its
\* order
UpperPairs(n) == SelectSeq(Pairs(n), IsUpper)

RECURSIVE TotalDistance(_, _, _, _)
TotalDistance(cs, pairs, k, totalDistance) ==
    IF k > Len(pairs) THEN totalDistance
    ELSE TotalDistance(cs, pairs, k + 1,
            RAdd(totalDistance,
                 euclideanDistance(cs[pairs[k][1] + 1], cs[pairs[k][2] + 1])))

\* the keys the loop over the pairs visits
Keys(pairs) == {edgeKey(pairs[k][1], pairs[k][2]) : k \in 1..Len(pairs)}

\* how often the loop over the pairs visits the key
Passes(pairs, key) ==
    Cardinality({k \in 1..Len(pairs) : edgeKey(pairs[k][1], pairs[k][2]) = key})

\* the Map after the loop over the pairs has set every key it visits to v
SetAll(m, pairs, v) == [key \in Keys(pairs) |-> v] @@ m

\* initializePheromones() on the city list cs and the Map pher
initializePheromones(cs, pher) ==
    LET n == Len(cs)
        upper == UpperPairs(n)
        avgDistance == RDiv(TotalDistance(cs, upper, 1, Zero), Num(Len(upper)))
        seed == RDiv(One, RMul(Num(n), avgDistance))
    IN  IF n < 2 THEN pher ELSE SetAll(pher, Pairs(n), seed)

\* the Map after the loop over the pairs has set the key of every pair to
\* the distance of its cities (both orders of a pair give the same distance)
SetDistances(m, cs, pairs) ==
    [key \in Keys(pairs) |-> euclideanDistance(cs[key[1] + 1], cs[key[2] + 1])] @@ m

\* precomputeDistances() on the city list cs and the Map dist
precomputeDistances(cs, dist) == SetDistances(dist, cs, Pairs(Len(cs)))

getPheromone(i, j) == GetOr(pheromones, edgeKey(i, j), Zero)
getDistance(i, j) == GetOr(distances, edgeKey(i, j), Infinity)

heuristic(i, j) ==
    LET dist == getDistance(i, j)
    IN  IF RGt(dist, Zero) THEN RDiv(One, dist) ELSE Zero

\* tau^alpha * eta^beta of the edge (i, j)
EdgeWeight(i, j) == RMul(Pow(getPheromone(i, j), alpha), Pow(heuristic(i, j), beta))

\* the denominator after the loop has added the weights of order[1..k]
RECURSIVE Denominator(_, _, _)
Denominator(currentCity, order, k) ==
    IF k = 0 THEN Zero
    ELSE RAdd(Denominator(currentCity, order, k - 1), EdgeWeight(currentCity, order[k]))

transitionProbability(currentCity, nextCity, unvisited) ==
    IF nextCity \notin unvisited THEN Zero
    ELSE LET numerator == EdgeWeight(currentCity, nextCity)
             denominator == Denominator(currentCity, Ascending(unvisited),
                                        Cardinality(unvisited))
         IN  IF RGt(denominator, Zero) THEN RDiv(numerator, denominator) ELSE Zero

\* the array probabilities of selectNextCity: the cumulative probabilities
RECURSIVE CumulativeProbabilities(_, _, _, _, _)
CumulativeProbabilities(currentCity, order, unvisited, k, cumulativeProbability) ==
    IF k > Len(order) THEN <<>>
    ELSE LET c == RAdd(cumulativeProbability,
                       transitionProbability(currentCity, order[k], unvisited))
         IN  <<c>> \o CumulativeProbabilities(currentCity, order, unvisited, k + 1, c)

\* the roulette loop with the test random < probabilities[i]
RECURSIVE RouletteACStrict(_, _, _, _)
RouletteACStrict(probabilities, order, i, random) ==
    IF i > Len(probabilities) THEN Last(order)
    ELSE IF RLt(random, probabilities[i]) THEN order[i]
    ELSE RouletteACStrict(probabilities, order, i + 1, random)

\* the roulette loop of AntColony.selectNextCity from entry i on
RECURSIVE RouletteAC(_, _, _, _)
RouletteAC(probabilities, order, i, random) ==
    IF i > Len(probabilities) THEN Last(order)
    ELSE IF RLe(random, probabilities[i]) THEN order[i]
    ELSE RouletteAC(probabilities, order, i + 1, random)

\* AntColony.selectNextCity(currentCity, unvisited) with Math.random() = rnd
\* (drawn only when two or more cities are unvisited)
selectNextCityAC(currentCity, unvisited, rnd) ==
    IF unvisited = {} THEN -1
    ELSE IF Cardinality(unvisited) = 1 THEN CHOOSE c \in unvisited : TRUE
    ELSE LET order == Ascending(unvisited)
             probabilities == CumulativeProbabilities(currentCity, order, unvisited, 1, Zero)
             random == RMul(rnd, Last(probabilities))
         IN  RouletteAC(probabilities, order, 1, random)

\* the while loop leaving as soon as no unvisited city has a positive weight
RECURSIVE BuildPathStalls(_, _, _, _)
BuildPathStalls(path, unvisited, draws, k) ==
    IF unvisited = {} \/ \A c \in unvisited : EdgeWeight(Last(path), c) = Zero
    THEN path
    ELSE LET drawn == Cardinality(unvisited) >= 2
             nextCity == selectNextCityAC(Last(path), unvisited,
                                          IF drawn THEN draws[k] ELSE Zero)
         IN  BuildPathStalls(Append(path, nextCity), unvisited \ {nextCity}, draws,
                             IF drawn THEN k + 1 ELSE k)

\* the while loop of buildAntTour; draws[k] is the next Math.random()
RECURSIVE BuildPath(_, _, _, _)
BuildPath(path, unvisited, draws, k) ==
    IF unvisited = {} THEN path
    ELSE LET drawn == Cardinality(unvisited) >= 2
             nextCity == selectNextCityAC(Last(path), unvisited,
                                          IF drawn THEN draws[k] ELSE Zero)
         IN  IF nextCity = -1 THEN path
             ELSE BuildPath(Append(path, nextCity), unvisited \ {nextCity}, draws,
                            IF drawn THEN k + 1 ELSE k)

RECURSIVE PathLength(_, _, _)
PathLength(path, i, distance) ==
    IF i > Len(path) - 1 THEN distance
    ELSE PathLength(path, i + 1, RAdd(distance, getDistance(path[i], path[i + 1])))

\* buildAntTour(startCity): the AntPath {path, distance}
buildAntTour(startCity, draws) ==
    LET n == Len(cities)
        path == Append(BuildPath(<<startCity>>, (0..(n - 1)) \ {startCity}, draws, 1),
                       startCity)
    IN  [path |-> path, distance |-> PathLength(path, 1, Zero)]

\* the thresholds of AntColony.selectNextCity as parts of the last one, which
\* the value of Math.random() is multiplied with
ScaledThresholds(currentCity, unvisited) ==
    LET probabilities == CumulativeProbabilities(currentCity, Ascending(unvisited),
                                                 unvisited, 1, Zero)
        total == Last(probabilities)
    IN  {RDiv(probabilities[i], total) :
            i \in {k \in 1..Len(probabilities) : RLt(probabilities[k], total)}}

\* the sequences of Math.random() values of the while loop of buildAntTour,
\* after those in draws: one value per selection among two or more unvisited
\* cities, for every city the selection can return
RECURSIVE PathDraws(_, _, _)
PathDraws(path, unvisited, draws) ==
    IF unvisited = {} THEN {draws}
    ELSE IF Cardinality(unvisited) = 1
    THEN PathDraws(Append(path, selectNextCityAC(Last(path), unvisited, Zero)), {}, draws)
    ELSE UNION {LET nextCity == selectNextCityAC(Last(path), unvisited, rnd)
                IN  PathDraws(Append(path, nextCity), unvisited \ {nextCity},
                              Append(draws, rnd))
                : rnd \in DrawsAgainst(ScaledThresholds(Last(path), unvisited))}

\* every AntPath buildAntTour(0) can return from the current pheromones
ColonyTours ==
    {buildAntTour(0, draws) : draws \in PathDraws(<<0>>, (0..(Len(cities) - 1)) \ {0}, <<>>)}

\* one pass of the evaporation loop over a key holding currentPheromone,
\* repeated
RECURSIVE EvaporateKey(_, _, _)
EvaporateKey(currentPheromone, passes, rho) ==
    IF passes = 0 THEN currentPheromone
    ELSE EvaporateKey(RMul(RSub(One, rho), OrElse(currentPheromone, Zero)),
                      passes - 1, rho)

\* the evaporation loop of AntColony.updatePheromones: one pass per ordered
\* pair (i, j), i # j, on the key of the pair
EvaporateAC(pher, pairs, rho) ==
    [key \in Keys(pairs) |->
        EvaporateKey(GetOr(pher, key, Zero), Passes(pairs, key), rho)] @@ pher

\* the keys the deposit loop visits along a path
PathKeys(path) == {edgeKey(path[i], path[i + 1]) : i \in 1..(Len(path) - 1)}

\* how often the deposit loop visits the key along a path
PathTraversals(path, key) ==
    Cardinality({i \in 1..(Len(path) - 1) : edgeKey(path[i], path[i + 1]) = key})

\* pheromones.set(key, (pheromones.get(key) || 0) + contribution), repeated
RECURSIVE DepositPath(_, _, _)
DepositPath(currentPheromone, contribution, times) ==
    IF times = 0 THEN currentPheromone
    ELSE DepositPath(RAdd(OrElse(currentPheromone, Zero), contribution),
                     contribution, times - 1)

\* what the deposit loop over the tours k.. leaves under one key
RECURSIVE DepositKey(_, _, _, _)
DepositKey(currentPheromone, tours, k, key) ==
    IF k > Len(tours) THEN currentPheromone
    ELSE DepositKey(DepositPath(currentPheromone, RDiv(One, tours[k].distance),
                                PathTraversals(tours[k].path, key)),
                    tours, k + 1, key)

\* the deposit loop of AntColony.updatePheromones: every key on a path of a
\* tour is set, the other keys are left alone
DepositAllAC(pher, tours) ==
    LET visited == UNION {PathKeys(tours[k].path) : k \in 1..Len(tours)}
    IN  [key \in visited |-> DepositKey(GetOr(pher, key, Zero), tours, 1, key)] @@ pher

\* the evaporation half of AntColony.updatePheromones
evaporationAC(pher, n, rho) == EvaporateAC(pher, Pairs(n), rho)

\* AntColony.updatePheromones(antTours) applied to the Map pher
updatePheromonesAC(pher, tours, n, rho) ==
    DepositAllAC(evaporationAC(pher, n, rho), tours)

RECURSIVE UpdateBestAC(_, _, _, _)
UpdateBestAC(bd, bp, tours, k) ==
    IF k > Len(tours) THEN <<bd, bp>>
    ELSE IF RLt(tours[k].distance, bd)
         THEN UpdateBestAC(tours[k].distance, tours[k].path, tours, k + 1)
         ELSE UpdateBestAC(bd, bp, tours, k + 1)


\* the colonies of the model: the home page's city list (canvas points whose
\* distances are whole numbers) and the constructor's parameters
Colony(cs, ants, al, be, rho) ==
    [cities |-> cs, numAnts |-> ants, alpha |-> al, beta |-> be, evaporationRate |-> rho]
ColonyScenarios ==
    { \* no city yet
      Colony(<<>>, 1, Num(1), Num(1), <<1, 2>>),
      \* two cities, the page's default parameters
      Colony(<< <<0, 0>>, <<3, 0>> >>, 2, Num(1), Num(2), <<1, 10>>),
      \* a 3-4-5 triangle
      Colony(<< <<0, 0>>, <<3, 0>>, <<0, 4>> >>, 1, Num(1), Num(1), <<1, 2>>),
      \* the same spot clicked twice
      Colony(<< <<0, 0>>, <<0, 0>>, <<3, 0>> >>, 1, Num(1), Num(1), <<1, 2>>),
      \* a 3 x 4 rectangle, strong evaporation
      Colony(<< <<0, 0>>, <<3, 0>>, <<0, 4>>, <<3, 4>> >>, 1, Num(1), Num(1), <<7, 8>>) }

\* cities addCity is called with
NewCities == {<<0, 0>>, <<3, 4>>}

\* arguments setParameters is called with
ParameterInputs == { <<Num(1), Num(2), <<3, 4>>>> }

\* city lists may grow up to this length
MaxCities == 3

\* new ACOSolver(distanceMatrix)
SolverInit(dm) ==
    /\ engine = "ACOSolver"
    /\ distanceMatrix = dm
    /\ numCities = Cardinality(DOMAIN dm)
    /\ bestPath = <<>>
    /\ bestDistance = Infinity
    /\ iteration = 0
    /\ pheromoneMatrix = FilledMatrix(Cardinality(DOMAIN dm), initialPheromone)
    /\ heuristicMatrix = BuildHeuristic(Cardinality(DOMAIN dm), dm)
    /\ allTours = <<>>
    /\ allDistances = <<>>
    /\ oldPheromone = Null
    /\ evaporated = Null
    /\ reported = <<>>
    /\ lastCall = [op |-> "new", iteration |-> 0, threw |-> FALSE, returned |-> -1]
    /\ held = NothingHeld
    /\ cities = Null /\ numAnts = Null /\ alpha = Null /\ beta = Null
    /\ evaporationRate = Null /\ pheromones = Null /\ distances = Null
    /\ distanceHistory = Null /\ antTours = Null
    /\ page = Null

\* new AntColony(cities, numAnts, alpha, beta, evaporationRate)
ColonyInit(c) ==
    /\ engine = "AntColony"
    /\ cities = c.cities
    /\ numAnts = c.numAnts
    /\ alpha = c.alpha
    /\ beta = c.beta
    /\ evaporationRate = c.evaporationRate
    /\ pheromones = initializePheromones(c.cities, EmptyMap)
    /\ distances = precomputeDistances(c.cities, EmptyMap)
    /\ bestPath = <<>>
    /\ bestDistance = Infinity
    /\ iteration = 0
    /\ distanceHistory = <<>>
    /\ antTours = <<>>
    /\ oldPheromone = Null
    /\ evaporated = Null
    /\ reported = <<>>
    /\ lastCall = [op |-> "new", iteration |-> 0, threw |-> FALSE, returned |-> -1]
    /\ held = NothingHeld
    /\ distanceMatrix = Null /\ pheromoneMatrix = Null /\ heuristicMatrix = Null
    /\ numCities = Null /\ params = Null /\ allTours = Null /\ allDistances = Null
    /\ page = Null

\* ACOSolver.solveIteration(params), when calculatePathDistance finds every
\* row it reads
SolveIteration ==
    /\ engine = "ACOSolver"
    /\ iteration < MaxIter
    /\ RowsPresent
    /\ \E tours \in [1..params.numAnts -> AntTours(params.alpha, params.beta)] :
         LET dists == PathDistances(tours)
             best == UpdateBest(bestDistance, bestPath, tours, dists, 1)
         IN  /\ allTours' = tours
             /\ allDistances' = dists
             /\ bestDistance' = best[1]
             /\ bestPath' = best[2]
             /\ oldPheromone' = pheromoneMatrix
             /\ evaporated' = Evaporate(pheromoneMatrix, params.rho)
             /\ pheromoneMatrix' = updatePheromones(pheromoneMatrix, tours, dists,
                                                    params.rho, params.q)
             /\ iteration' = iteration + 1
             /\ reported' = Append(reported, best[1])
             /\ held' = IF best[1] # bestDistance THEN Detach({"bestPath"}) ELSE held
    /\ lastCall' = Returning("solveIteration", iteration + 1)
    /\ UNCHANGED <<page, engine, distanceMatrix, heuristicMatrix, numCities, params, colonyVars>>

\* reset() without the loop that rewrites the pheromone matrix
SolverResetKeepPheromone ==
    /\ engine = "ACOSolver"
    /\ bestPath' = <<>>
    /\ bestDistance' = Infinity
    /\ iteration' = 0
    /\ reported' = <<>>
    /\ allTours' = <<>>
    /\ allDistances' = <<>>
    /\ oldPheromone' = Null
    /\ evaporated' = Null
    /\ lastCall' = Call("reset")
    /\ held' = Detach({"bestPath"})
    /\ UNCHANGED <<page, engine, distanceMatrix, pheromoneMatrix, heuristicMatrix, numCities,
                   params, colonyVars>>

\* ACOSolver.reset()
SolverReset ==
    /\ engine = "ACOSolver"
    /\ bestPath' = <<>>
    /\ bestDistance' = Infinity
    /\ iteration' = 0
    /\ pheromoneMatrix' = FilledMatrix(numCities, initialPheromone)
    /\ reported' = <<>>
    /\ allTours' = <<>>
    /\ allDistances' = <<>>
    /\ oldPheromone' = Null
    /\ evaporated' = Null
    /\ lastCall' = Call("reset")
    /\ held' = Detach({"bestPath"})
    /\ UNCHANGED <<page, engine, distanceMatrix, heuristicMatrix, numCities, params, colonyVars>>

\* AntColony.runIteration()
RunIteration ==
    /\ engine = "AntColony"
    /\ iteration < MaxIter
    /\ \E tours \in [1..numAnts -> ColonyTours] :
         LET best == UpdateBestAC(bestDistance, bestPath, tours, 1)
         IN  /\ antTours' = tours
             /\ bestDistance' = best[1]
             /\ bestPath' = best[2]
             /\ oldPheromone' = pheromones
             /\ evaporated' = evaporationAC(pheromones, Len(cities), evaporationRate)
             /\ pheromones' = updatePheromonesAC(pheromones, tours, Len(cities),
                                                 evaporationRate)
             /\ iteration' = iteration + 1
             /\ distanceHistory' = Append(distanceHistory, best[1])
             /\ reported' = Append(reported, best[1])
             /\ held' = IF best[1] # bestDistance THEN Detach({"bestPath"}) ELSE held
    /\ lastCall' = Returning("runIteration", iteration + 1)
    /\ UNCHANGED <<page, engine, cities, numAnts, alpha, beta, evaporationRate, distances,
                   solverVars>>

\* setParameters that also restarts the iteration counter
SetParametersRestart ==
    /\ engine = "AntColony"
    /\ \E in \in ParameterInputs :
         /\ alpha' = RMax(<<1, 10>>, RMin(Num(5), in[1]))
         /\ beta' = RMax(<<1, 10>>, RMin(Num(5), in[2]))
         /\ evaporationRate' = RMax(<<1, 100>>, RMin(<<99, 100>>, in[3]))
    /\ iteration' = 0
    /\ lastCall' = Call("setParameters")
    /\ UNCHANGED <<page, engine, bestPath, bestDistance, cities, numAnts, pheromones,
                   distances, distanceHistory, antTours, solverVars,
                   oldPheromone, evaporated, reported, held>>

\* AntColony.setParameters(alpha, beta, evaporationRate)
SetParameters ==
    /\ engine = "AntColony"
    /\ \E in \in ParameterInputs :
         /\ alpha' = RMax(<<1, 10>>, RMin(Num(5), in[1]))
         /\ beta' = RMax(<<1, 10>>, RMin(Num(5), in[2]))
         /\ evaporationRate' = RMax(<<1, 100>>, RMin(<<99, 100>>, in[3]))
    /\ lastCall' = Call("setParameters")
    /\ UNCHANGED <<page, engine, bestPath, bestDistance, iteration, cities, numAnts, pheromones,
                   distances, distanceHistory, antTours, solverVars,
                   oldPheromone, evaporated, reported, held>>

\* AntColony.reset()
ColonyReset ==
    /\ engine = "AntColony"
    /\ iteration' = 0
    /\ bestDistance' = Infinity
    /\ bestPath' = <<>>
    /\ distanceHistory' = <<>>
    /\ pheromones' = initializePheromones(cities, EmptyMap)
    /\ reported' = <<>>
    /\ antTours' = <<>>
    /\ oldPheromone' = Null
    /\ evaporated' = Null
    /\ lastCall' = Call("reset")
    /\ held' = Detach({"bestPath", "distanceHistory"})
    /\ UNCHANGED <<page, engine, cities, numAnts, alpha, beta, evaporationRate, distances,
                   solverVars>>

\* addCity without its final reset(): the Maps are rebuilt, the counters kept
AddCityNoReset ==
    /\ engine = "AntColony"
    /\ Len(cities) < MaxCities
    /\ \E city \in NewCities :
         LET cs == Append(cities, city)
         IN  /\ cities' = cs
             /\ distances' = precomputeDistances(cs, EmptyMap)
             /\ pheromones' = initializePheromones(cs, EmptyMap)
    /\ reported' = <<>>
    /\ antTours' = <<>>
    /\ oldPheromone' = Null
    /\ evaporated' = Null
    /\ lastCall' = Call("addCity")
    /\ UNCHANGED <<page, engine, iteration, bestDistance, bestPath, distanceHistory, numAnts,
                   alpha, beta, evaporationRate, solverVars, held>>

\* AntColony.addCity(city): push, clear and rebuild both Maps, then reset()
AddCity ==
    /\ engine = "AntColony"
    /\ Len(cities) < MaxCities
    /\ \E city \in NewCities :
         LET cs == Append(cities, city)
         IN  /\ cities' = cs
             /\ distances' = precomputeDistances(cs, EmptyMap)
             /\ pheromones' = initializePheromones(cs, EmptyMap)
    /\ iteration' = 0
    /\ bestDistance' = Infinity
    /\ bestPath' = <<>>
    /\ distanceHistory' = <<>>
    /\ reported' = <<>>
    /\ antTours' = <<>>
    /\ oldPheromone' = Null
    /\ evaporated' = Null
    /\ lastCall' = Call("addCity")
    /\ held' = Detach({"bestPath", "distanceHistory"})
    /\ UNCHANGED <<page, engine, numAnts, alpha, beta, evaporationRate, solverVars>>

Init ==
    \/ \E s \in SolverScenarios :
         /\ SolverInit(s.distanceMatrix)
         /\ params = s.params
    \/ \E c \in ColonyScenarios : ColonyInit(c)

Next ==
    \/ SolveIteration
    \/ SolverReset
    \/ RunIteration
    \/ SetParameters
    \/ ColonyReset
    \/ AddCity

Spec == Init /\ [][Next]_vars

\* ------------------------------------------------------------------------
\* The engines with a caller that keeps and changes what it reads
\* ------------------------------------------------------------------------
\* a read of the engine that hands out the array of the field f
Read(f) ==
    /\ held' = [field |-> f, returned |-> FieldValue(f), value |-> FieldValue(f),
                live |-> TRUE]
    /\ UNCHANGED <<page, engine, bestPath, bestDistance, iteration, solverVars, colonyVars,
                   oldPheromone, evaporated, reported>>

\* ACOSolver.getBestResult(): an object with the iteration counter whose
\* bestPath is this.bestPath (the pheromone rows are copied)
GetBestResult ==
    /\ engine = "ACOSolver"
    /\ Read("bestPath")
    /\ lastCall' = Returning("getBestResult", iteration)

\* AntColony.getState(): an object with the iteration counter whose bestPath
\* is this.bestPath (the pheromones Map is copied)
GetState ==
    /\ engine = "AntColony"
    /\ Read("bestPath")
    /\ lastCall' = Returning("getState", iteration)

\* AntColony.getDistanceHistory(): the array this.distanceHistory itself
GetDistanceHistory ==
    /\ engine = "AntColony"
    /\ Read("distanceHistory")
    /\ lastCall' = Call("getDistanceHistory")

\* AntColony.getCities(): the array this.cities itself
GetCities ==
    /\ engine = "AntColony"
    /\ Read("cities")
    /\ lastCall' = Call("getCities")

\* the caller removes the last element of the array it holds (array.pop())
CallerWrites ==
    /\ held.field # "none"
    /\ HeldNow # <<>>
    /\ LET shorter == SubSeq(HeldNow, 1, Len(HeldNow) - 1)
       IN  IF held.live
           THEN /\ bestPath' = IF held.field = "bestPath" THEN shorter ELSE bestPath
                /\ distanceHistory' =
                      IF held.field = "distanceHistory" THEN shorter ELSE distanceHistory
                /\ cities' = IF held.field = "cities" THEN shorter ELSE cities
                /\ UNCHANGED held
           ELSE /\ held' = [held EXCEPT !.value = shorter]
                /\ UNCHANGED <<bestPath, distanceHistory, cities>>
    /\ lastCall' = Call("callerWrites")
    /\ UNCHANGED <<page, engine, bestDistance, iteration, solverVars, numAnts, alpha, beta,
                   evaporationRate, pheromones, distances, antTours,
                   oldPheromone, evaporated, reported>>

\* one solver and one colony
InitCaller ==
    \/ /\ SolverInit(Matrix(<< <<0, 3, 4>>, <<3, 0, 5>>, <<4, 5, 0>> >>))
       /\ params = DefaultParams(1)
    \/ ColonyInit(Colony(<< <<0, 0>>, <<3, 0>> >>, 1, Num(1), Num(2), <<3, 4>>))

NextCaller ==
    \/ SolveIteration
    \/ SolverReset
    \/ RunIteration
    \/ SetParameters
    \/ ColonyReset
    \/ AddCity
    \/ GetBestResult
    \/ GetState
    \/ GetDistanceHistory
    \/ GetCities
    \/ CallerWrites

SpecCaller == InitCaller /\ [][NextCaller]_vars

\* ------------------------------------------------------------------------
\* The engines with updateDistanceMatrix, calls that throw and engines built
\* from fewer than two points
\* ------------------------------------------------------------------------
\* the loop of updateDistanceMatrix over the rows of the n cities: entries
\* (i, j), i # j, with newMatrix[i][j] > 0 are rewritten, the others kept; the
\* loop ends at the first row newMatrix does not have
RebuildHeuristic(hm, newMatrix, n) ==
    [i \in 0..(n - 1) |-> [j \in 0..(n - 1) |->
        IF i \in DOMAIN newMatrix /\ i # j /\ RGt(newMatrix[i][j], Zero)
        THEN RDiv(One, newMatrix[i][j])
        ELSE hm[i][j]]]

\* newMatrix[i][j] is read for a row i that newMatrix does not have: a
\* TypeError
UpdateThrows(newMatrix, n) ==
    \E i \in 0..(n - 1) : \E j \in 0..(n - 1) : i # j /\ i \notin DOMAIN newMatrix

\* matrices updateDistanceMatrix is called with: two rows of three entries,
\* and a 3 x 3 matrix of one-way streets with a distance of 0 from 0 to 1
MatrixInputs ==
    { Rows(<< <<0, 5, 7>>, <<5, 0, 7>> >>),
      Rows(<< <<0, 0, 6>>, <<1, 0, 2>>, <<3, 1, 0>> >>) }

\* ACOSolver.updateDistanceMatrix(newMatrix), every row of newMatrix as long
\* as the solver has cities
UpdateDistanceMatrix ==
    /\ engine = "ACOSolver"
    /\ \E newMatrix \in MatrixInputs :
         /\ \A i \in DOMAIN newMatrix : Cardinality(DOMAIN newMatrix[i]) >= numCities
         /\ distanceMatrix' = newMatrix
         /\ heuristicMatrix' = RebuildHeuristic(heuristicMatrix, newMatrix, numCities)
         /\ lastCall' = IF UpdateThrows(newMatrix, numCities)
                        THEN Throwing("updateDistanceMatrix")
                        ELSE Call("updateDistanceMatrix")
    /\ UNCHANGED <<page, engine, bestPath, bestDistance, iteration, pheromoneMatrix, numCities,
                   params, allTours, allDistances, colonyVars, oldPheromone, evaporated,
                   reported, held>>

\* ACOSolver.solveIteration(params) when the first ant's tour leads
\* calculatePathDistance to a row distanceMatrix does not have: a TypeError
\* before any field is written
SolveIterationThrows ==
    /\ engine = "ACOSolver"
    /\ ~RowsPresent
    /\ params.numAnts >= 1
    /\ lastCall' = Throwing("solveIteration")
    /\ UNCHANGED <<page, engine, bestPath, bestDistance, iteration, solverVars, colonyVars,
                   oldPheromone, evaporated, reported, held>>

\* solvers built from no row, from one row, and from one-way streets
OpsSolvers ==
    { Scenario(Rows(<< >>), DefaultParams(1)),
      Scenario(Rows(<< <<0>> >>), DefaultParams(1)),
      Scenario(Matrix(<< <<0, 1, 5>>, <<2, 0, 1>>, <<1, 4, 0>> >>), GreedyParams(1)) }

\* a colony built from no city (addCity brings the cities)
OpsColonies ==
    { Colony(<<>>, 1, Num(1), Num(1), <<1, 2>>) }

InitOps ==
    \/ \E s \in OpsSolvers :
         /\ SolverInit(s.distanceMatrix)
         /\ params = s.params
    \/ \E c \in OpsColonies : ColonyInit(c)

NextOps ==
    \/ SolveIteration
    \/ SolveIterationThrows
    \/ UpdateDistanceMatrix
    \/ SolverReset
    \/ GetBestResult
    \/ RunIteration
    \/ SetParameters
    \/ ColonyReset
    \/ AddCity
    \/ GetState

SpecOps == InitOps /\ [][NextOps]_vars

\* ------------------------------------------------------------------------
\* The engines on points that share a spot: selections among cities of
\* weight 0
\* ------------------------------------------------------------------------
SelectSolvers ==
    { \* four points on one spot
      Scenario(Matrix(<< <<0, 0, 0, 0>>, <<0, 0, 0, 0>>,
                         <<0, 0, 0, 0>>, <<0, 0, 0, 0>> >>), EvenParams(1)),
      \* a triangle with two points at distance 0
      Scenario(Matrix(<< <<0, 0, 4>>, <<0, 0, 4>>, <<4, 4, 0>> >>), GreedyParams(1)) }

SelectColonies ==
    { \* one city at distance 3 from three cities on one spot
      Colony(<< <<3, 0>>, <<0, 0>>, <<0, 0>>, <<0, 0>> >>, 2, Num(1), Num(1), <<1, 2>>),
      \* the same spot clicked twice
      Colony(<< <<0, 0>>, <<0, 0>>, <<3, 0>> >>, 1, Num(1), Num(1), <<1, 2>>) }

InitSelect ==
    \/ \E s \in SelectSolvers :
         /\ SolverInit(s.distanceMatrix)
         /\ params = s.params
    \/ \E c \in SelectColonies : ColonyInit(c)

NextSelect ==
    \/ SolveIteration
    \/ SolverReset
    \/ RunIteration
    \/ SetParameters
    \/ ColonyReset

SpecSelect == InitSelect /\ [][NextSelect]_vars

\* ------------------------------------------------------------------------
\* One iteration statement by statement: the ant loop of solveIteration and
\* of runIteration, one pass per step, and the update after the loop.
\* lastCall.op is "constructAntTour" or "buildAntTour" while the engine is
\* inside the loop; allTours and antTours are the local arrays of the call;
\* oldPheromone is the pheromone store the call found when it was entered.
\* ------------------------------------------------------------------------
InAntLoop == lastCall.op \in {"constructAntTour", "buildAntTour"}

\* allTours of the call
ToursSoFar == IF InAntLoop THEN allTours ELSE <<>>

\* antTours of the call
AntToursSoFar == IF InAntLoop THEN antTours ELSE <<>>

\* a pass of the ant loop of solveIteration that also runs updatePheromones
\* on the tour it has built
AntLoopPassDepositing ==
    /\ engine = "ACOSolver"
    /\ iteration < MaxIter
    /\ RowsPresent
    /\ Len(ToursSoFar) < params.numAnts
    /\ \E tour \in AntTours(params.alpha, params.beta) :
         LET distance == calculatePathDistance(tour)
             best == UpdateBest(bestDistance, bestPath, <<tour>>, <<distance>>, 1)
         IN  /\ allTours' = Append(ToursSoFar, tour)
             /\ allDistances' = Append(IF InAntLoop THEN allDistances ELSE <<>>, distance)
             /\ bestDistance' = best[1]
             /\ bestPath' = best[2]
             /\ held' = IF best[1] # bestDistance THEN Detach({"bestPath"}) ELSE held
             /\ pheromoneMatrix' = updatePheromones(pheromoneMatrix, <<tour>>, <<distance>>,
                                                    params.rho, params.q)
    /\ oldPheromone' = IF InAntLoop THEN oldPheromone ELSE pheromoneMatrix
    /\ lastCall' = Call("constructAntTour")
    /\ UNCHANGED <<page, engine, iteration, evaporated, reported,
                   distanceMatrix, heuristicMatrix, numCities, params, colonyVars>>

\* a pass of the ant loop of solveIteration: constructAntTour,
\* calculatePathDistance, the two pushes and the update of the best solution
AntLoopPass ==
    /\ engine = "ACOSolver"
    /\ iteration < MaxIter
    /\ RowsPresent
    /\ Len(ToursSoFar) < params.numAnts
    /\ \E tour \in AntTours(params.alpha, params.beta) :
         LET distance == calculatePathDistance(tour)
             best == UpdateBest(bestDistance, bestPath, <<tour>>, <<distance>>, 1)
         IN  /\ allTours' = Append(ToursSoFar, tour)
             /\ allDistances' = Append(IF InAntLoop THEN allDistances ELSE <<>>, distance)
             /\ bestDistance' = best[1]
             /\ bestPath' = best[2]
             /\ held' = IF best[1] # bestDistance THEN Detach({"bestPath"}) ELSE held
    /\ oldPheromone' = IF InAntLoop THEN oldPheromone ELSE pheromoneMatrix
    /\ lastCall' = Call("constructAntTour")
    /\ UNCHANGED <<page, engine, iteration, pheromoneMatrix, evaporated, reported,
                   distanceMatrix, heuristicMatrix, numCities, params, colonyVars>>

\* the rest of solveIteration after the loop: updatePheromones, iteration++
\* and the result
AfterAntLoop ==
    /\ engine = "ACOSolver"
    /\ iteration < MaxIter
    /\ RowsPresent
    /\ InAntLoop
    /\ Len(ToursSoFar) = params.numAnts
    /\ evaporated' = Evaporate(pheromoneMatrix, params.rho)
    /\ pheromoneMatrix' = updatePheromones(pheromoneMatrix, allTours, allDistances,
                                           params.rho, params.q)
    /\ iteration' = iteration + 1
    /\ reported' = Append(reported, bestDistance)
    /\ lastCall' = Returning("solveIteration", iteration + 1)
    /\ UNCHANGED <<page, engine, bestPath, bestDistance, held, allTours, allDistances,
                   oldPheromone, distanceMatrix, heuristicMatrix, numCities, params,
                   colonyVars>>

\* a pass of the ant loop of runIteration: buildAntTour(0), the push and the
\* update of the best tour
ColonyLoopPass ==
    /\ engine = "AntColony"
    /\ iteration < MaxIter
    /\ Len(AntToursSoFar) < numAnts
    /\ \E tour \in ColonyTours :
         LET best == UpdateBestAC(bestDistance, bestPath, <<tour>>, 1)
         IN  /\ antTours' = Append(AntToursSoFar, tour)
             /\ bestDistance' = best[1]
             /\ bestPath' = best[2]
             /\ held' = IF best[1] # bestDistance THEN Detach({"bestPath"}) ELSE held
    /\ oldPheromone' = IF InAntLoop THEN oldPheromone ELSE pheromones
    /\ lastCall' = Call("buildAntTour")
    /\ UNCHANGED <<page, engine, iteration, pheromones, evaporated, reported,
                   distanceHistory, cities, numAnts, alpha, beta, evaporationRate,
                   distances, solverVars>>

\* the rest of runIteration after the loop: updatePheromones, iteration++,
\* the push onto distanceHistory and the result
AfterColonyLoop ==
    /\ engine = "AntColony"
    /\ iteration < MaxIter
    /\ InAntLoop
    /\ Len(AntToursSoFar) = numAnts
    /\ evaporated' = evaporationAC(pheromones, Len(cities), evaporationRate)
    /\ pheromones' = updatePheromonesAC(pheromones, antTours, Len(cities), evaporationRate)
    /\ iteration' = iteration + 1
    /\ distanceHistory' = Append(distanceHistory, bestDistance)
    /\ reported' = Append(reported, bestDistance)
    /\ lastCall' = Returning("runIteration", iteration + 1)
    /\ UNCHANGED <<page, engine, bestPath, bestDistance, held, antTours, oldPheromone,
                   cities, numAnts, alpha, beta, evaporationRate, distances, solverVars>>

\* the engines of the step-by-step runs: those of the scenarios with two ants
InitSteps ==
    \/ \E s \in SolverScenarios :
         /\ s.params.numAnts = 2
         /\ SolverInit(s.distanceMatrix)
         /\ params = s.params
    \/ \E c \in ColonyScenarios \cup SelectColonies :
         /\ c.numAnts = 2
         /\ ColonyInit(c)

NextSteps ==
    \/ AntLoopPass
    \/ AfterAntLoop
    \/ ColonyLoopPass
    \/ AfterColonyLoop

SpecSteps == InitSteps /\ [][NextSteps]_vars

\* ------------------------------------------------------------------------
\* The pages: the home page (app/page.tsx) hosts an AntColony, the /map page
\* (app/map/page.tsx) an ACOSolver. A page sees of its engine which cities it
\* was built from and how many iterations it has run.
\* ------------------------------------------------------------------------
MaxHomeCities == 3
MaxMapCities == 4
MaxTicks == 2
\* the number of ids generateId hands out
MaxIds == 5

\* places of the canvas or of the map a click can hit
Spots == 1..3
\* positions of the ants slider
AntCounts == {20, 30}

\* the page's engine is hosted outside the engine variables
NoEngine ==
    /\ engine = Null /\ bestPath = Null /\ bestDistance = Null /\ iteration = Null
    /\ distanceMatrix = Null /\ pheromoneMatrix = Null /\ heuristicMatrix = Null
    /\ numCities = Null /\ params = Null /\ allTours = Null /\ allDistances = Null
    /\ cities = Null /\ numAnts = Null /\ alpha = Null /\ beta = Null
    /\ evaporationRate = Null /\ pheromones = Null /\ distances = Null
    /\ distanceHistory = Null /\ antTours = Null
    /\ oldPheromone = Null /\ evaporated = Null /\ reported = Null
    /\ lastCall = Null /\ held = Null

\* useState<AntColony | null>(null) and useRef<ACOSolver | null>(null)
NoColony == [installed |-> FALSE, cities |-> <<>>, numAnts |-> 0, iteration |-> 0]
NoSolver == [installed |-> FALSE, cities |-> <<>>, matrix |-> "none", iteration |-> 0]

\* new AntColony(cities, numAnts, alpha, beta, evaporationRate)
NewColony(cs, n) == [installed |-> TRUE, cities |-> cs, numAnts |-> n, iteration |-> 0]

\* ---- home page ----

HomeInit ==
    /\ NoEngine
    /\ page = [name |-> "home", cities |-> <<>>, antColony |-> NoColony,
               isRunning |-> FALSE, numAnts |-> 30, visualizationMode |-> "canvas",
               lastEvent |-> "mount"]

IsHome == page.name = "home"

\* the effect on [cities, numAnts]: a new colony when there are two cities
ColonyEffect(cs, n, colony) == IF Len(cs) >= 2 THEN NewColony(cs, n) ELSE colony

\* the canvas ignores a click on a city; the map ignores clicks while running
ClickReachesPage(spot) ==
    IF page.visualizationMode = "canvas"
    THEN \A k \in 1..Len(page.cities) : page.cities[k].spot # spot
    ELSE ~page.isRunning

\* a click on the canvas or on the map: handleAddCity and the colony effect
HomeClick ==
    /\ IsHome
    /\ Len(page.cities) < MaxHomeCities
    /\ \E spot \in Spots :
         /\ ClickReachesPage(spot)
         /\ LET cs == Append(page.cities, [id |-> Len(page.cities), spot |-> spot])
            IN  page' = [page EXCEPT !.cities = cs,
                                     !.antColony = ColonyEffect(cs, page.numAnts, @),
                                     !.lastEvent = "addCity"]
    /\ UNCHANGED engineVars

\* the buttons Canvas and Map
HomeSetMode ==
    /\ IsHome
    /\ \E mode \in {"canvas", "map"} :
         /\ mode # page.visualizationMode
         /\ page' = [page EXCEPT !.visualizationMode = mode, !.lastEvent = "setMode"]
    /\ UNCHANGED engineVars

\* handleNumAntsChange and the colony effect
HomeNumAntsChange ==
    /\ IsHome
    /\ \E n \in AntCounts :
         /\ n # page.numAnts
         /\ page' = [page EXCEPT !.numAnts = n,
                                 !.antColony = ColonyEffect(page.cities, n, @),
                                 !.lastEvent = "numAnts"]
    /\ UNCHANGED engineVars

\* the sliders of alpha, beta and the evaporation rate
Sliders == {"alpha", "beta", "evaporation"}

\* handleAlphaChange, handleBetaChange, handleEvaporationChange: the value goes
\* to the page and, by setParameters, to the colony, which keeps its history
HomeParameterChange ==
    /\ IsHome
    /\ \E slider \in Sliders : page' = [page EXCEPT !.lastEvent = slider]
    /\ UNCHANGED engineVars

\* handlePlayPause
HomePlayPause ==
    /\ IsHome
    /\ page' = IF Len(page.cities) < 2
               THEN [page EXCEPT !.lastEvent = "alert"]
               ELSE [page EXCEPT !.isRunning = ~page.isRunning,
                                 !.lastEvent = "playPause"]
    /\ UNCHANGED engineVars

\* handleReset
HomeReset ==
    /\ IsHome
    /\ page' = [page EXCEPT !.isRunning = FALSE,
                            !.antColony = IF @.installed
                                          THEN [@ EXCEPT !.iteration = 0] ELSE @,
                            !.lastEvent = "reset"]
    /\ UNCHANGED engineVars

\* handleClearCities
HomeClear ==
    /\ IsHome
    /\ page' = [page EXCEPT !.cities = <<>>, !.isRunning = FALSE,
                            !.lastEvent = "clear"]
    /\ UNCHANGED engineVars

\* a tick of the interval of the simulation loop: antColony.runIteration()
HomeTick ==
    /\ IsHome
    /\ page.isRunning /\ page.antColony.installed
    /\ page.antColony.iteration < MaxTicks
    /\ page' = [page EXCEPT !.antColony.iteration = @ + 1,
                            !.lastEvent = "runIteration"]
    /\ UNCHANGED engineVars

\* ---- /map page ----

NoLookup == [active |-> FALSE, cities |-> <<>>]

\* the state of Index after mounting. bestPath, bestDistance and iteration are
\* the displayed result (bestPath as the set of the cities on the path, the
\* order of the visit left out; bestDistance as "Infinity" or "finite"); intervalRef
\* tells whether the ref holds a timer, timers counts the intervals set and
\* not cleared; stopped records that handlePause or handleReset has completed
\* and handleStart has not been invoked since
MapInit ==
    /\ NoEngine
    /\ page = [name |-> "map", cities |-> <<>>, solverRef |-> NoSolver,
               isRunning |-> FALSE, isLoading |-> FALSE, intervalRef |-> FALSE,
               timers |-> 0, stopped |-> FALSE,
               bestPath |-> {}, bestDistance |-> "Infinity", iteration |-> 0,
               lookup |-> NoLookup, nextId |-> 1, lastEvent |-> "mount"]

IsMap == page.name = "map"

\* generateId(): an id no city has had
generateId == page.nextId

\* a click on the map: the click handler of MapBoard and handleCityAdd
MapCityAdd ==
    /\ IsMap
    /\ Len(page.cities) < MaxMapCities
    /\ page.nextId <= MaxIds
    /\ ~page.isRunning
    /\ page' = [page EXCEPT !.cities = Append(@, generateId),
                            !.nextId = @ + 1,
                            !.solverRef = NoSolver,
                            !.lastEvent = "addCity"]
    /\ UNCHANGED engineVars

\* the list without its k-th city
Without(sequence, k) ==
    [i \in 1..(Len(sequence) - 1) |-> IF i < k THEN sequence[i] ELSE sequence[i + 1]]

\* "Remove city" in the popup of a marker: handleCityRemove
MapCityRemove ==
    /\ IsMap
    /\ ~page.isRunning
    /\ \E k \in 1..Len(page.cities) :
         page' = [page EXCEPT !.cities = Without(@, k),
                              !.solverRef = NoSolver,
                              !.bestPath = {},
                              !.bestDistance = "Infinity",
                              !.iteration = 0,
                              !.lastEvent = "removeCity"]
    /\ UNCHANGED engineVars

\* the answers of the routing service: fetch throws, a status that is not OK,
\* a body whose code is not "Ok", a body without distances, a body whose
\* distances are rows of numbers, a body whose distances are null rows
Responses ==
    {[name |-> "throws", throws |-> TRUE, ok |-> FALSE, code |-> "", distances |-> "none"],
     [name |-> "notOk", throws |-> FALSE, ok |-> FALSE, code |-> "", distances |-> "none"],
     [name |-> "badCode", throws |-> FALSE, ok |-> TRUE, code |-> "NoTable",
      distances |-> "numbers"],
     [name |-> "noDistances", throws |-> FALSE, ok |-> TRUE, code |-> "Ok",
      distances |-> "none"],
     [name |-> "distances", throws |-> FALSE, ok |-> TRUE, code |-> "Ok",
      distances |-> "numbers"],
     [name |-> "nullRows", throws |-> FALSE, ok |-> TRUE, code |-> "Ok",
      distances |-> "nullRows"]}

\* the value null of Promise<number[][] | null>
NoMatrix == [kind |-> "null", cities |-> <<>>, rows |-> "none"]

fetchOSRMDistanceMatrix(cs, response) ==
    IF Len(cs) < 2 THEN NoMatrix
    ELSE IF response.throws THEN NoMatrix
    ELSE IF ~response.ok THEN NoMatrix
    ELSE IF response.code # "Ok" \/ response.distances = "none" THEN NoMatrix
    ELSE [kind |-> "osrm", cities |-> cs, rows |-> response.distances]

\* the great-circle matrix of the cities
buildHaversineMatrix(cs) == [kind |-> "haversine", cities |-> cs, rows |-> "numbers"]

\* new ACOSolver(matrix) reads matrix[i][j] and throws on a row that is null
ConstructorThrows(matrix) == matrix.rows = "nullRows" /\ Len(matrix.cities) >= 2

\* new ACOSolver(matrix)
NewSolver(matrix) ==
    [installed |-> TRUE, cities |-> matrix.cities, matrix |-> matrix.kind, iteration |-> 0]

\* initializeSolver without the fallback to the great-circle matrix
SolverWithoutFallback(cs, response) ==
    LET osrmMatrix == fetchOSRMDistanceMatrix(cs, response)
    IN  IF osrmMatrix.kind # "null" /\ ~ConstructorThrows(osrmMatrix)
        THEN NewSolver(osrmMatrix) ELSE NoSolver

\* solverRef.current after initializeSolver has its answer: the try block and
\* the catch block
SolverAfterLookup(cs, response) ==
    LET osrmMatrix == fetchOSRMDistanceMatrix(cs, response)
        matrix == IF osrmMatrix.kind # "null" THEN osrmMatrix
                  ELSE buildHaversineMatrix(cs)
    IN  IF ConstructorThrows(matrix) THEN NewSolver(buildHaversineMatrix(cs))
        ELSE NewSolver(matrix)

\* canStart={cities.length >= 3}: the Start button is disabled without it
canStart == Len(page.cities) >= 3

\* a click on Start, shown while not running and enabled when canStart and
\* not loading: handleStart up to its await, that is its guard (never taken
\* through the button), and either the interval at once or initializeSolver
\* up to the request it sends for its cities
MapStart ==
    /\ IsMap
    /\ ~page.isRunning /\ canStart /\ ~page.isLoading
    /\ page' = IF Len(page.cities) < 3
               THEN [page EXCEPT !.stopped = FALSE, !.lastEvent = "toast"]
               ELSE IF page.solverRef.installed
               THEN [page EXCEPT !.isRunning = TRUE, !.intervalRef = TRUE,
                                 !.timers = @ + 1, !.stopped = FALSE,
                                 !.lastEvent = "start"]
               ELSE [page EXCEPT !.isLoading = TRUE,
                                 !.lookup = [active |-> TRUE, cities |-> page.cities],
                                 !.stopped = FALSE,
                                 !.lastEvent = "lookup"]
    /\ UNCHANGED engineVars

\* the answer arrives: the rest of initializeSolver, which returns true, and
\* the rest of handleStart
MapLookupReturns ==
    /\ IsMap
    /\ page.lookup.active
    /\ \E response \in Responses :
         page' = [page EXCEPT !.solverRef = SolverAfterLookup(page.lookup.cities, response),
                              !.isLoading = FALSE,
                              !.lookup = NoLookup,
                              !.isRunning = TRUE,
                              !.intervalRef = TRUE,
                              !.timers = @ + 1,
                              !.lastEvent = response.name]
    /\ UNCHANGED engineVars

\* handlePause
MapPause ==
    /\ IsMap
    /\ page.isRunning
    /\ page' = [page EXCEPT !.intervalRef = FALSE,
                            !.timers = IF page.intervalRef THEN @ - 1 ELSE @,
                            !.isRunning = FALSE,
                            !.stopped = TRUE,
                            !.lastEvent = "pause"]
    /\ UNCHANGED engineVars

\* handleReset
MapReset ==
    /\ IsMap
    /\ ~page.isRunning
    /\ page' = [page EXCEPT !.intervalRef = FALSE,
                            !.timers = IF page.intervalRef THEN @ - 1 ELSE @,
                            !.isRunning = FALSE,
                            !.stopped = TRUE,
                            !.solverRef = IF @.installed
                                          THEN [@ EXCEPT !.iteration = 0] ELSE @,
                            !.bestPath = {},
                            !.bestDistance = "Infinity",
                            !.iteration = 0,
                            !.lastEvent = "reset"]
    /\ UNCHANGED engineVars

\* the cities on the best path a solver of n cities reports after an
\* iteration: a tour of the indices 0..n-1 in the order an ant visited them
PathCities(n) == 0..(n - 1)

\* a tick of an interval: solverRef.current.solveIteration(params) and the
\* three setters of its result
MapTick ==
    /\ IsMap
    /\ page.timers > 0
    /\ page.solverRef.iteration < MaxTicks
    /\ page' = IF ~page.solverRef.installed
               THEN [page EXCEPT !.lastEvent = "tick"]
               ELSE [page EXCEPT !.solverRef.iteration = @ + 1,
                                 !.bestPath = PathCities(Len(page.solverRef.cities)),
                                 !.bestDistance = "finite",
                                 !.iteration = page.solverRef.iteration + 1,
                                 !.lastEvent = "solveIteration"]
    /\ UNCHANGED engineVars

InitPages == HomeInit \/ MapInit

NextPages ==
    \/ HomeClick
    \/ HomeSetMode
    \/ HomeNumAntsChange
    \/ HomeParameterChange
    \/ HomePlayPause
    \/ HomeReset
    \/ HomeClear
    \/ HomeTick
    \/ MapCityAdd
    \/ MapCityRemove
    \/ MapStart
    \/ MapLookupReturns
    \/ MapPause
    \/ MapReset
    \/ MapTick

SpecPages == InitPages /\ [][NextPages]_vars

\* ------------------------------------------------------------------------
\* Properties
\* ------------------------------------------------------------------------
IsSolver == engine = "ACOSolver"
IsColony == engine = "AntColony"
Iterated == lastCall.op \in {"solveIteration", "runIteration"}

\* C1: in both engines the bestDistance an iteration call reports is never
\* greater than the one the previous call reported (no reset or addCity in
\* between).
C1_BestDistanceNonIncreasing ==
    \A k \in 2..Len(reported) : RLe(reported[k], reported[k - 1])

\* a later call reported a strictly shorter best tour than the call before
C1_Witness ==
    /\ Iterated
    /\ \E k \in 2..Len(reported) : RLt(reported[k], reported[k - 1])

IsPermutation(seq, S) ==
    /\ Len(seq) = Cardinality(S)
    /\ {seq[i] : i \in 1..Len(seq)} = S

\* C2: every tour of the last iteration visits each index exactly once:
\* ACOSolver tours are permutations of 0..n-1; AntColony paths (n >= 1) have
\* n+1 entries, start and end at 0 and hold every other index once.
C2_ToursArePermutations ==
    /\ (IsSolver /\ numCities >= 1) =>
          \A k \in 1..Len(allTours) : IsPermutation(allTours[k], 0..(numCities - 1))
    /\ (IsColony /\ Len(cities) >= 1) =>
          \A k \in 1..Len(antTours) :
             LET path == antTours[k].path
                 n == Len(cities)
             IN  /\ Len(path) = n + 1
                 /\ path[1] = 0
                 /\ path[n + 1] = path[1]
                 /\ IsPermutation(SubSeq(path, 1, n), 0..(n - 1))

\* two ants of one iteration toured three cities from different start cities
C2_Witness ==
    /\ IsSolver /\ numCities = 3 /\ Len(allTours) = 2
    /\ allTours[1] # allTours[2]
    /\ allTours[1][1] # allTours[2][1]

\* the sum f[1] + ... + f[k]
RECURSIVE SumUpTo(_, _)
SumUpTo(f, k) == IF k = 0 THEN Zero ELSE RAdd(SumUpTo(f, k - 1), f[k])

\* the distance entries along a closed ACOSolver tour, closing edge last
SolverEntries(tour) ==
    [i \in 1..Len(tour) |-> distanceMatrix[tour[i]][tour[(i % Len(tour)) + 1]]]

\* the distance entry of a pair of cities: 0 on the diagonal
ColonyEntry(i, j) == IF i = j THEN Zero ELSE distances[edgeKey(i, j)]

\* the distance entries along an AntColony path (its last entry is the start)
ColonyEntries(path) ==
    [i \in 1..(Len(path) - 1) |-> ColonyEntry(path[i], path[i + 1])]

\* C3: in both engines the length recorded for a tour is the sum of the
\* distance entries of its consecutive edges plus the closing edge, zero
\* distances between distinct points included.
C3_TourLengthIsSumOfEntries ==
    /\ IsSolver =>
          \A k \in 1..Len(allTours) :
             allDistances[k] = SumUpTo(SolverEntries(allTours[k]), Len(allTours[k]))
    /\ (IsColony /\ Len(cities) >= 2) =>
          \A k \in 1..Len(antTours) :
             antTours[k].distance =
                SumUpTo(ColonyEntries(antTours[k].path), Len(antTours[k].path) - 1)

\* the edges of n cities as Map keys
Edges(n) == {e \in (0..(n - 1)) \X (0..(n - 1)) : e[1] < e[2]}

\* C4: in both engines every edge's pheromone right after the evaporation
\* loop of an iteration is at least the floor 0.001 and not negative.
C4_EvaporatedAtLeastFloor ==
    /\ (IsSolver /\ lastCall.op = "solveIteration") =>
          \A i \in Cities : \A j \in Cities :
             RLe(MinPheromone, evaporated[i][j]) /\ RLe(Zero, evaporated[i][j])
    /\ (IsColony /\ lastCall.op = "runIteration") =>
          \A e \in Edges(Len(cities)) :
             RLe(MinPheromone, evaporated[e]) /\ RLe(Zero, evaporated[e])

\* the sum of f over the set S
RECURSIVE SetSum(_, _)
SetSum(S, f) ==
    IF S = {} THEN Zero
    ELSE LET x == CHOOSE y \in S : TRUE
         IN  RAdd(f[x], SetSum(S \ {x}, f))

\* the seed of the AntColony pheromones: 1 / (n * average pairwise distance)
UniformSeed ==
    LET n == Len(cities)
        avg == RDiv(SetSum(Edges(n), distances), Num(Cardinality(Edges(n))))
    IN  RDiv(One, RMul(Num(n), avg))

\* the state reset() must leave
ResetState ==
    /\ iteration = 0
    /\ bestDistance = Infinity
    /\ bestPath = <<>>
    /\ IsSolver => \A i \in Cities : \A j \in Cities :
                      pheromoneMatrix[i][j] = initialPheromone
    /\ IsColony => /\ DOMAIN pheromones = Edges(Len(cities))
                   /\ \A e \in Edges(Len(cities)) : pheromones[e] = UniformSeed

\* C5: a reset() leaves iteration = 0, bestDistance = Infinity, bestPath
\* empty and every pheromone at the uniform seed, leaves the distance and
\* heuristic data as they were, and a reset() right after a reset() changes
\* no field of the engine.
C5_Reset ==
    /\ [](lastCall.op = "reset" => ResetState)
    /\ [][lastCall'.op = "reset" =>
            /\ UNCHANGED <<distanceMatrix, heuristicMatrix, numCities, distances, cities>>
            /\ lastCall.op = "reset" =>
                  UNCHANGED <<engine, bestPath, bestDistance, iteration, solverVars,
                              colonyVars>>]_vars

\* a reset() was called after two iterations had changed the pheromones
C5_Witness ==
    /\ lastCall.op = "reset"
    /\ lastCall.iteration >= 2

\* C6: with two points at a symmetric distance d > 0 every tour of either
\* engine has length 2 * d, and bestDistance is 2 * d after every iteration.
C6_TwoPoints ==
    /\ (IsSolver /\ numCities = 2 /\ distanceMatrix[0][1] = distanceMatrix[1][0]
                 /\ RGt(distanceMatrix[0][1], Zero)) =>
          /\ \A k \in 1..Len(allDistances) :
                allDistances[k] = RMul(Num(2), distanceMatrix[0][1])
          /\ iteration >= 1 => bestDistance = RMul(Num(2), distanceMatrix[0][1])
    /\ (IsColony /\ Len(cities) = 2 /\ RGt(distances[<<0, 1>>], Zero)) =>
          /\ \A k \in 1..Len(antTours) :
                antTours[k].distance = RMul(Num(2), distances[<<0, 1>>])
          /\ iteration >= 1 => bestDistance = RMul(Num(2), distances[<<0, 1>>])

\* the second iteration on two points 3 apart has run, in the solver
C6_Witness ==
    /\ IsSolver /\ numCities = 2 /\ iteration = 2
    /\ Len(allDistances) = 2
    /\ bestDistance = Num(6)

\* C7: addCity(city) leaves iteration = 0, bestDistance = Infinity, bestPath
\* and distanceHistory empty, and distance and pheromone entries for exactly
\* the edges of the enlarged city list, every pheromone at one seed value.
C7_AddCityResets ==
    (IsColony /\ lastCall.op = "addCity") =>
        /\ iteration = 0
        /\ bestDistance = Infinity
        /\ bestPath = <<>>
        /\ distanceHistory = <<>>
        /\ DOMAIN distances = Edges(Len(cities))
        /\ \A e \in Edges(Len(cities)) :
              distances[e] = euclideanDistance(cities[e[1] + 1], cities[e[2] + 1])
        /\ DOMAIN pheromones = Edges(Len(cities))
        /\ \A e \in Edges(Len(cities)) : pheromones[e] = UniformSeed

\* a third city was added to a colony that had run two iterations
C7_Witness ==
    /\ IsColony /\ lastCall.op = "addCity"
    /\ lastCall.iteration = 2
    /\ Len(cities) = 3

\* how often the closed tour runs along the edge between i and j
Traversals(tour, i, j) ==
    Cardinality({p \in 1..Len(tour) : {tour[p], tour[(p % Len(tour)) + 1]} = {i, j}})

\* what the tours of the last solveIteration add to the entry (i, j)
SolverDeposits(i, j) ==
    [k \in 1..Len(allTours) |->
        IF RGt(allDistances[k], Zero)
        THEN RMul(Num(Traversals(allTours[k], i, j)), RDiv(params.q, allDistances[k]))
        ELSE Zero]

\* what the paths of the last runIteration add to the edge e
ColonyDeposits(e) ==
    [k \in 1..Len(antTours) |->
        RMul(Num(PathTraversals(antTours[k].path, e)), RDiv(One, antTours[k].distance))]

\* C10: an iteration evaporates first and deposits second: after
\* solveIteration every entry (i, j) is max((1 - rho) * old, 0.001) plus
\* q / L_k for every traversal of the edge by a tour k with L_k > 0; in
\* AntColony every edge holds its evaporated value plus 1 / L_k per traversal.
C10_EvaporateThenDeposit ==
    /\ (IsSolver /\ lastCall.op = "solveIteration") =>
          \A i \in Cities : \A j \in Cities :
             pheromoneMatrix[i][j] =
                RAdd(RMax(RMul(RSub(One, params.rho), oldPheromone[i][j]), MinPheromone),
                     SumUpTo(SolverDeposits(i, j), Len(allTours)))
    /\ (IsColony /\ lastCall.op = "runIteration") =>
          \A e \in Edges(Len(cities)) :
             pheromones[e] =
                RAdd(evaporated[e], SumUpTo(ColonyDeposits(e), Len(antTours)))

\* the second solveIteration on two points: the diagonal entries sit on the
\* floor, the edge between the points carries the deposits of both ants
C10_Witness ==
    /\ IsSolver /\ lastCall.op = "solveIteration" /\ iteration = 2
    /\ numCities = 2
    /\ pheromoneMatrix[0][0] = MinPheromone
    /\ RGt(pheromoneMatrix[0][1], evaporated[0][1])

EngineOps == {"solveIteration", "runIteration", "setParameters", "reset", "addCity"}

\* C9: no array an engine hands out is the engine's own: a caller that
\* changes an array it was given changes no field of the engine, and no call
\* on the engine changes the content of an array the caller was given before.
C9_NoSharedStorage ==
    [][/\ lastCall'.op = "callerWrites" =>
             UNCHANGED <<engine, bestPath, bestDistance, iteration, solverVars, colonyVars>>
       /\ (lastCall'.op \in EngineOps /\ held.field # "none") => HeldNow' = HeldNow]_vars

\* C11: in every state of an ACOSolver, after construction and any sequence
\* of solveIteration, reset and updateDistanceMatrix calls, the pheromone
\* matrix is symmetric, also when the distance matrix is not.
C11_PheromoneSymmetric ==
    IsSolver =>
        \A i \in Cities : \A j \in Cities : pheromoneMatrix[i][j] = pheromoneMatrix[j][i]

\* an iteration on one-way streets has left more pheromone on the edges than
\* on the diagonal
C11_Witness ==
    /\ IsSolver /\ numCities = 3
    /\ lastCall.op = "solveIteration" /\ ~lastCall.threw
    /\ distanceMatrix[0][1] # distanceMatrix[1][0]
    /\ RGt(pheromoneMatrix[0][1], pheromoneMatrix[0][0])

CounterKeepers == {"setParameters", "getState", "getBestResult", "updateDistanceMatrix"}

\* C12: the iteration counter of either engine is the number of iteration
\* calls completed since construction or the last reset()/addCity(): every
\* completed solveIteration/runIteration raises it by one and returns the new
\* value, and setParameters, getState, getBestResult and updateDistanceMatrix
\* leave it as it is.
C12_IterationCounts ==
    /\ [](iteration = Len(reported))
    /\ [][/\ (lastCall'.op \in {"solveIteration", "runIteration"} /\ ~lastCall'.threw) =>
               /\ iteration' = iteration + 1
               /\ lastCall'.returned = Len(reported')
          /\ lastCall'.op \in CounterKeepers => iteration' = iteration]_vars

\* the second runIteration since the construction returned 2, after a
\* setParameters call had changed the evaporation rate
C12_Witness ==
    /\ IsColony /\ lastCall.op = "runIteration"
    /\ lastCall.returned = 2
    /\ evaporationRate = <<3, 4>>

\* C16: no iteration completes on an engine of fewer than two points or of a
\* distance matrix that is not square: building such an engine fails.
C16_SmallEnginesRejected ==
    (Iterated /\ ~lastCall.threw) =>
        /\ IsSolver =>
              /\ numCities >= 2
              /\ \A i \in DOMAIN distanceMatrix :
                    Cardinality(DOMAIN distanceMatrix[i]) = numCities
        /\ IsColony => Len(cities) >= 2

\* C17: a call that throws leaves the distance, heuristic and pheromone
\* matrices, bestPath, bestDistance and iteration as they were before it.
C17_FailedCallChangesNothing ==
    [][lastCall'.threw =>
          UNCHANGED <<distanceMatrix, heuristicMatrix, pheromoneMatrix, bestPath,
                      bestDistance, iteration>>]_vars

\* the unvisited sets constructAntTour can hold at the city cur
SolverUnvisited(cur) == {U \in SUBSET (Cities \ {cur}) : U # {}}

\* the unvisited sets of two or more cities buildAntTour(0) can hold at cur
ColonyUnvisited(cur) ==
    LET others == (0..(Len(cities) - 1)) \ {cur}
    IN  {U \in SUBSET others :
            /\ Cardinality(U) >= 2
            /\ cur = 0 => U = others
            /\ cur # 0 => 0 \notin U}

\* the weights tau^alpha * eta^beta of the solver from cur to the cities of U
SolverWeights(cur, U) == Weights(cur, Ascending(U), params.alpha, params.beta)

\* every city of U has weight 0 from cur
SolverAllZero(cur, U) ==
    \A k \in 1..Cardinality(U) : SolverWeights(cur, U)[k][2] = Zero
ColonyAllZero(cur, U) == \A c \in U : EdgeWeight(cur, c) = Zero

\* the city the solver selects at cur among U when Math.random() returns r
SolverSelects(cur, U, r) ==
    selectNextCity(calculateProbabilities(cur, U, params.alpha, params.beta), r)

\* C19 as claimed: when every unvisited city has weight 0, every unvisited
\* city can be the next city (a uniform choice, not tied to the first or the
\* last position).
C19_ZeroWeightsUniform ==
    /\ IsSolver =>
          \A cur \in Cities : \A U \in SolverUnvisited(cur) :
             SolverAllZero(cur, U) =>
                \A c \in U : \E r \in RandSet : SolverSelects(cur, U, r) = c
    /\ IsColony =>
          \A cur \in 0..(Len(cities) - 1) : \A U \in ColonyUnvisited(cur) :
             ColonyAllZero(cur, U) =>
                \A c \in U : \E r \in RandSet : selectNextCityAC(cur, U, r) = c

\* C19, amended: when every unvisited city has weight 0 the next city is
\* chosen by its position in the unvisited set: ACOSolver returns the last
\* unvisited city in ascending order (the first when the draw is 0),
\* AntColony returns the first.
C19_ZeroWeightsByPosition ==
    /\ IsSolver =>
          \A cur \in Cities : \A U \in SolverUnvisited(cur) : \A r \in RandSet :
             SolverAllZero(cur, U) =>
                SolverSelects(cur, U, r) =
                   IF r = Zero THEN Ascending(U)[1] ELSE Last(Ascending(U))
    /\ IsColony =>
          \A cur \in 0..(Len(cities) - 1) : \A U \in ColonyUnvisited(cur) :
             \A r \in RandSet :
                ColonyAllZero(cur, U) => selectNextCityAC(cur, U, r) = Ascending(U)[1]

\* an ant of the solver on four points on one spot went from its start city
\* to the last of the three unvisited cities
C19_Witness ==
    /\ IsSolver /\ numCities = 4 /\ lastCall.op = "solveIteration"
    /\ SolverAllZero(0, {1, 2, 3})
    /\ allTours[1][1] = 0 /\ allTours[1][2] = 3

\* the sum of the first k probabilities of the entries <<city, probability>>
RECURSIVE Cumulative(_, _)
Cumulative(entries, k) ==
    IF k = 0 THEN Zero ELSE RAdd(Cumulative(entries, k - 1), entries[k][2])

\* the city of the first entry whose cumulative probability exceeds r
FirstExceeding(entries, r) ==
    LET exceeding == {k \in 1..Len(entries) : RGt(Cumulative(entries, k), r)}
    IN  IF exceeding = {} THEN -1
        ELSE entries[CHOOSE k \in exceeding : \A l \in exceeding : k <= l][1]

\* the transition probabilities of the colony from cur to the cities of U
ColonyProbabilities(cur, U) ==
    [k \in 1..Cardinality(U) |->
        <<Ascending(U)[k], transitionProbability(cur, Ascending(U)[k], U)>>]

\* the city of the first entry whose cumulative probability reaches r
FirstReaching(entries, r) ==
    LET reaching == {k \in 1..Len(entries) : RLe(r, Cumulative(entries, k))}
    IN  IF reaching = {} THEN -1
        ELSE entries[CHOOSE k \in reaching : \A l \in reaching : k <= l][1]

\* the probability of the city in the entries <<city, probability>>
ProbabilityOf(entries, city) ==
    LET k == CHOOSE k \in 1..Len(entries) : entries[k][1] = city
    IN  entries[k][2]

\* the selection of a draw r from the entries of a positive total: the first
\* city reaching r, the first city of all for r = 0, a city of positive
\* probability for r > 0
ReachingDraw(entries, r, selected) ==
    /\ selected = FirstReaching(entries, r)
    /\ r = Zero => selected = entries[1][1]
    /\ RGt(r, Zero) => RGt(ProbabilityOf(entries, selected), Zero)

\* C20, amended: with a positive total weight the roulette returns the first
\* unvisited city in ascending order whose cumulative weight reaches the draw r
\* (a tie goes to the first city reaching r): for r = 0 the first unvisited
\* city, also when its weight is 0; for r > 0 a city of positive weight.
C20_FirstCityReachingDraw ==
    /\ IsSolver =>
          \A cur \in Cities : \A U \in SolverUnvisited(cur) : \A r \in RandSet :
             LET probabilities ==
                    calculateProbabilities(cur, U, params.alpha, params.beta)
             IN  RGt(Total(SolverWeights(cur, U), 1, Zero), Zero) =>
                    ReachingDraw(probabilities, r, SolverSelects(cur, U, r))
    /\ IsColony =>
          \A cur \in 0..(Len(cities) - 1) : \A U \in ColonyUnvisited(cur) :
             \A rnd \in RandSet :
                LET probabilities == ColonyProbabilities(cur, U)
                    total == Cumulative(probabilities, Cardinality(U))
                IN  RGt(total, Zero) =>
                       ReachingDraw(probabilities, RMul(rnd, total),
                                    selectNextCityAC(cur, U, rnd))

\* an ant of the solver went from city 0 to city 1, of weight 0, while city 2
\* had a positive weight
C20_Witness ==
    /\ IsSolver /\ numCities = 3 /\ lastCall.op = "solveIteration"
    /\ SolverWeights(0, {1, 2})[1][2] = Zero
    /\ RGt(SolverWeights(0, {1, 2})[2][2], Zero)
    /\ allTours[1][1] = 0 /\ allTours[1][2] = 1

\* C20 as claimed: with a positive total weight the roulette returns the first
\* unvisited city in ascending order whose cumulative weight strictly exceeds the draw r
\* of [0, total), so that a city of weight 0 is never selected, also for r = 0.
C20_FirstCityExceedingDraw ==
    /\ IsSolver =>
          \A cur \in Cities : \A U \in SolverUnvisited(cur) : \A r \in RandSet :
             LET probabilities ==
                    calculateProbabilities(cur, U, params.alpha, params.beta)
             IN  RGt(Total(SolverWeights(cur, U), 1, Zero), Zero) =>
                    SolverSelects(cur, U, r) = FirstExceeding(probabilities, r)
    /\ IsColony =>
          \A cur \in 0..(Len(cities) - 1) : \A U \in ColonyUnvisited(cur) :
             \A rnd \in RandSet :
                LET probabilities == ColonyProbabilities(cur, U)
                    total == Cumulative(probabilities, Cardinality(U))
                IN  RGt(total, Zero) =>
                       selectNextCityAC(cur, U, rnd) =
                          FirstExceeding(probabilities, RMul(rnd, total))

\* the home half and the /map half of C14
HomeIterationsNeedTwoCities ==
    (IsHome /\ page.lastEvent = "runIteration") => Len(page.cities) >= 2
MapIterationsNeedThreeCities ==
    (IsMap /\ page.lastEvent = "solveIteration") => Len(page.cities) >= 3

\* C14: an iteration is executed only while the page's city list has the
\* page's minimum number of cities: no solveIteration on /map with fewer than 3
\* cities, no runIteration on the home page with fewer than 2, for every
\* interleaving of the user's actions and the timer ticks.
C14_IterationsNeedMinimumCities ==
    HomeIterationsNeedTwoCities /\ MapIterationsNeedThreeCities

\* C15: while the simulation is running no click adds a city: between two
\* states with isRunning the city list is the same, on both pages and in both
\* modes of the home page.
C15_NoCityAddedWhileRunning ==
    [][(page.isRunning /\ page'.isRunning) => page'.cities = page.cities]_vars

\* the answers fetchOSRMDistanceMatrix turns into null
LookupFailures == {"throws", "notOk", "badCode", "noDistances"}

\* initializeSolver for the cities cs and the answer response ends with a
\* solver, built from the great-circle matrix of cs when the lookup failed
FallsBack(cs, response) ==
    /\ SolverAfterLookup(cs, response).installed
    /\ SolverAfterLookup(cs, response).cities = cs
    /\ response.name \in LookupFailures =>
          SolverAfterLookup(cs, response) = NewSolver(buildHaversineMatrix(cs))

\* C18: on /map initializeSolver with two or more cities ends with a solver
\* installed, isLoading false and the result true (the simulation starts),
\* whatever the lookup answers; after a failed lookup the solver is built from
\* the great-circle matrix of the cities it was called with.
C18_LookupFailureFallsBack ==
    /\ [](IsMap => \A response \in Responses : \A n \in 2..Len(page.cities) :
                      FallsBack(SubSeq(page.cities, 1, n), response))
    /\ [][(IsMap /\ page.lookup.active /\ ~page'.lookup.active) =>
             /\ Len(page.lookup.cities) >= 2
             /\ page'.solverRef.installed
             /\ ~page'.isLoading
             /\ page'.isRunning /\ page'.intervalRef
             /\ page'.lastEvent \in LookupFailures =>
                   page'.solverRef = NewSolver(buildHaversineMatrix(page.lookup.cities))]_vars

\* the request of a start with three cities has thrown and the simulation
\* runs on the great-circle matrix of these cities
C18_Witness ==
    /\ IsMap /\ page.lastEvent = "throws"
    /\ page.solverRef = NewSolver(buildHaversineMatrix(page.cities))
    /\ Len(page.cities) = 3
    /\ page.isRunning /\ ~page.isLoading

\* the non-empty unvisited sets buildAntTour(0) can hold at the city cur
ColonyRemaining(cur) ==
    LET others == (0..(Len(cities) - 1)) \ {cur}
    IN  {U \in SUBSET others :
            /\ U # {}
            /\ cur = 0 => U = others
            /\ cur # 0 => 0 \notin U}

\* the sequence holds every member of S once and nothing else
VisitsOnce(seq, S) ==
    /\ Len(seq) = Cardinality(S)
    /\ \A c \in S : \E i \in 1..Len(seq) : seq[i] = c

\* C21: tour construction ends with no city left unvisited: every selection
\* returns a member of the unvisited set it is given, also when all weights
\* are zero, and every tour the engine can build from its current pheromone
\* holds each of the n cities once (n - 1 selections after the start city).
C21_ConstructionVisitsEveryCity ==
    /\ (IsSolver /\ numCities >= 1) =>
          /\ \A cur \in Cities : \A U \in SolverUnvisited(cur) : \A r \in RandSet :
                SolverSelects(cur, U, r) \in U
          /\ \A tour \in AntTours(params.alpha, params.beta) :
                VisitsOnce(tour, Cities)
    /\ (IsColony /\ Len(cities) >= 1) =>
          /\ \A cur \in 0..(Len(cities) - 1) : \A U \in ColonyRemaining(cur) :
                \A r \in RandSet : selectNextCityAC(cur, U, r) \in U
          /\ \A tour \in ColonyTours :
                /\ Len(tour.path) = Len(cities) + 1
                /\ tour.path[Len(tour.path)] = 0
                /\ VisitsOnce(SubSeq(tour.path, 1, Len(cities)), 0..(Len(cities) - 1))

\* a colony built a closed path over four cities although at its second city
\* both unvisited cities had weight 0
C21_Witness ==
    /\ IsColony /\ Len(cities) = 4 /\ lastCall.op = "runIteration"
    /\ Len(antTours[1].path) = 5
    /\ ColonyAllZero(antTours[1].path[2], {antTours[1].path[3], antTours[1].path[4]})

\* a tour length that is zero or not finite
Degenerate(length) == ~IsFinite(length) \/ ~RGt(length, Zero)

\* C22: a tour whose length is zero or not finite deposits nothing: after an
\* iteration every edge that only such tours ran along holds its evaporated
\* value, and no entry that was finite after the evaporation is infinite or
\* NaN after the deposits, in both engines.
C22_DegenerateToursDepositNothing ==
    /\ (IsSolver /\ lastCall.op = "solveIteration") =>
          \A i \in Cities : \A j \in Cities :
             /\ (\A k \in 1..Len(allTours) :
                    Traversals(allTours[k], i, j) > 0 => Degenerate(allDistances[k]))
                => pheromoneMatrix[i][j] = evaporated[i][j]
             /\ IsFinite(evaporated[i][j]) => IsFinite(pheromoneMatrix[i][j])
    /\ (IsColony /\ lastCall.op = "runIteration") =>
          \A e \in Edges(Len(cities)) :
             /\ (\A k \in 1..Len(antTours) :
                    PathTraversals(antTours[k].path, e) > 0 =>
                       Degenerate(antTours[k].distance))
                => pheromones[e] = evaporated[e]
             /\ IsFinite(evaporated[e]) => IsFinite(pheromones[e])

\* the ant of a solver on four points on one spot closed a tour of length 0
\* and the edges of the tour hold the evaporated pheromone
C22_Witness ==
    /\ IsSolver /\ numCities = 4 /\ lastCall.op = "solveIteration"
    /\ allDistances[1] = Zero
    /\ Traversals(allTours[1], allTours[1][1], allTours[1][2]) > 0
    /\ pheromoneMatrix[allTours[1][1]][allTours[1][2]] =
          evaporated[allTours[1][1]][allTours[1][2]]

\* C23: AntColony.setParameters changes alpha, beta and evaporationRate only:
\* pheromones, distances, cities, iteration, bestPath, bestDistance and
\* distanceHistory are the same before and after the call, and the next
\* runIteration evaporates the pheromones kept, at the new rate, and counts on.
C23_SetParametersKeepsHistory ==
    [][/\ lastCall'.op = "setParameters" =>
             UNCHANGED <<pheromones, distances, cities, iteration, bestPath,
                         bestDistance, distanceHistory>>
       /\ (lastCall.op = "setParameters" /\ lastCall'.op = "runIteration") =>
             /\ oldPheromone' = pheromones
             /\ evaporated' = evaporationAC(pheromones, Len(cities), evaporationRate)
             /\ iteration' = iteration + 1]_vars

\* the parameters of a colony were set after its first iteration and the
\* second iteration evaporated the pheromones of the first at the new rate
\* (the loop passes every edge twice: 1/4 * 1/4)
C23_Witness ==
    /\ IsColony /\ lastCall.op = "runIteration" /\ iteration = 2
    /\ Len(cities) = 3
    /\ evaporationRate = <<3, 4>>
    /\ \E e \in Edges(3) : /\ oldPheromone[e] # UniformSeed
                           /\ evaporated[e] = RMul(<<1, 16>>, oldPheromone[e])

\* C24: on the home page a change of alpha, beta, the evaporation rate or the
\* number of ants while a colony exists keeps the colony with its history:
\* the colony after the change has run as many iterations as before it.
C24_TuningKeepsColonyHistory ==
    [][(IsHome /\ page'.lastEvent \in Sliders \cup {"numAnts"}
              /\ page.antColony.installed) =>
          /\ page'.antColony.installed
          /\ page'.antColony.cities = page.antColony.cities
          /\ page'.antColony.iteration = page.antColony.iteration]_vars

\* C25: in every state of an ACOSolver, also after updateDistanceMatrix, the
\* heuristic matrix is derived from the current distance matrix: for every
\* entry the matrix has, heuristic[i][j] = 1 / distance[i][j] where i # j and
\* distance[i][j] > 0, and 0 elsewhere.
C25_HeuristicFromCurrentDistances ==
    IsSolver =>
       \A i \in Cities \cap DOMAIN distanceMatrix :
          \A j \in Cities \cap DOMAIN distanceMatrix[i] :
             heuristicMatrix[i][j] =
                IF i # j /\ RGt(distanceMatrix[i][j], Zero)
                THEN RDiv(One, distanceMatrix[i][j]) ELSE Zero

\* C27: on the /map page every change of the city list, by handleCityAdd as
\* well as by handleCityRemove, discards the solver and resets the displayed
\* result: after the handler bestPath is empty, bestDistance is Infinity and
\* iteration is 0.
C27_CityChangeResetsResult ==
    [][(IsMap /\ page'.lastEvent \in {"addCity", "removeCity"}
              /\ page'.cities # page.cities) =>
          /\ ~page'.solverRef.installed
          /\ page'.bestPath = {}
          /\ page'.bestDistance = "Infinity"
          /\ page'.iteration = 0]_vars

\* C28: in every state of an ACOSolver, after any sequence of solveIteration,
\* reset and updateDistanceMatrix, either bestPath is empty and bestDistance
\* is Infinity, or bestPath is a permutation of 0..n-1 and bestDistance is
\* the cyclic length of bestPath under the current distance matrix.
C28_BestMatchesCurrentDistances ==
    IsSolver =>
       \/ bestPath = <<>> /\ bestDistance = Infinity
       \/ /\ VisitsOnce(bestPath, Cities)
          /\ RowsPresent
          /\ bestDistance = calculatePathDistance(bestPath)

\* C29: on the /map page, whenever the simulation is running the solver in
\* use was built from the current city list, whatever the order in which the
\* answer of the distance lookup and the city changes arrive.
C29_RunningSolverMatchesCities ==
    (IsMap /\ page.isRunning) =>
       /\ page.solverRef.installed
       /\ page.solverRef.cities = page.cities

\* C30: on the /map page at most one interval timer is set and not cleared,
\* and after handlePause or handleReset has completed no solveIteration runs
\* before handleStart is invoked again.
C30_StoppedUntilStarted ==
    [][IsMap =>
          /\ page'.timers <= 1
          /\ (page'.lastEvent = "solveIteration"
              /\ page'.solverRef.iteration = page.solverRef.iteration + 1)
                => ~page.stopped]_vars

\* the pheromone store of the engine
PheromoneStore == IF IsSolver THEN pheromoneMatrix ELSE pheromones

\* C26: within one iteration the pheromone store is written only after all
\* numAnts tours are built: while the ant loop runs the store is the one the
\* iteration started with, so every ant builds against the same values; a
\* step that changes the store starts from numAnts finished tours, and it is
\* the step that ends the iteration, so the update runs once per iteration.
C26_StoreWrittenAfterAllTours ==
    [][/\ InAntLoop' => PheromoneStore' = oldPheromone'
       /\ PheromoneStore' # PheromoneStore =>
             /\ InAntLoop
             /\ Len(IF IsSolver THEN allTours ELSE antTours)
                   = (IF IsSolver THEN params.numAnts ELSE numAnts)
             /\ iteration' = iteration + 1
       /\ iteration' # iteration => ~InAntLoop']_vars

\* the second iteration of a solver is in its ant loop with one of two tours
\* built, and the store carries what the first iteration deposited
C26_Witness ==
    /\ IsSolver /\ numCities = 3 /\ params.numAnts = 2
    /\ iteration = 1
    /\ InAntLoop /\ Len(allTours) = 1
    /\ pheromoneMatrix = oldPheromone
    /\ pheromoneMatrix[0][1] # initialPheromone

====
